---- MODULE Spec2Model ----
(***************************************************************************)
(* Model of v2v-vm-validations.                                            *)
(*                                                                         *)
(* Spec, SpecBoth: the persistent Inspector, that is the volatile caches,  *)
(* the inflight trackers (inflightTracker.do), the optional durable tier   *)
(* (DB) and InspectWithVirt / InspectWithVirtV2v, which compose them.      *)
(* Every invocation is one goroutine; a step is one region of the code     *)
(* that runs under a lock, or one call to an external collaborator.        *)
(*                                                                         *)
(* SpecInspect, SpecInspectV2VOpen: one run of VirtInspector.Inspect and   *)
(* the sessions it opens, in each of its two session strategies.           *)
(* SpecSession: the life of one V2VSession (OpenWithVirtV2V, Close).       *)
(* SpecFstab: ValidateMigrateableFstab.  SpecKeyPair: CacheKey.            *)
(* SpecRun: FstabCheck.Run on the outcome of InspectWithVirt.              *)
(* SpecMiss: one caller's InspectWithVirt with the stages of               *)
(* VirtInspector.Inspect inside it.  SpecLive: inflightTracker.do of an    *)
(* Inspector without DB, with weak fairness of every goroutine.            *)
(* SpecShared: the callers of one key with their contexts.  SpecRuns:      *)
(* several FstabCheck.Run calls, each with the Inspector it constructs.    *)
(***************************************************************************)
EXTENDS Integers, Sequences, FiniteSets, TLC

\* Number of InspectWithVirt invocations (goroutines) in a run.
NumCalls == 2

Calls == 1..NumCalls

\* ---------------------------------------------------------------- keys
\* Names are sequences of characters, so that String() can be computed the
\* way fmt.Sprintf("%s:%s") computes it.
VMNames == { <<"a">>, <<"a", ":">> }
SnapshotNames == { <<"b">>, <<":", "b">> }

CacheKey(vm, snap) == [VMName |-> vm, SnapshotName |-> snap]

\* The keys the callers use: two of them have the same canonical string.
Keys == { CacheKey(<<"a">>, <<"b">>),
          CacheKey(<<"a", ":">>, <<"b">>),
          CacheKey(<<"a">>, <<":", "b">>) }

\* CacheKey.String: VMName, a colon, SnapshotName.
String(k) == k.VMName \o <<":">> \o k.SnapshotName

KeyStrings == { String(k) : k \in Keys }

\* ---------------------------------------------------------------- values
\* A pointer to an inspection result is identified by where it came from:
\* <<"val", c>> is the result allocated by the inspection that call c ran,
\* <<"db", 0>> is a result that was in the durable store before the run.
Nil == <<"nil", 0>>
NoErr == <<"nil", 0>>
InspectValue(c) == <<"val", c>>
StoredValue == <<"db", 0>>

\* The stage of VirtInspector.Inspect that failed.
ErrKinds == { "session", "tool", "parse" }
InspectError(kind, c) == <<kind, c>>

VARIABLES
    call,            \* per invocation: program counter and locals
    virtMemoryCache, \* Inspector.virtMemoryCache.cache: key string -> value
    virtInflight,    \* Inspector.virtInflight.calls: key string -> record
    inflightCalls,   \* the inflightCall records, by the call that made them
    db,              \* Inspector.db: nil or a store CacheKey -> value
    hist,            \* history of each invocation (not program state)
    run,             \* history of the run: how it began, how calls overlap
    virtV2vMemoryCache, \* Inspector.virtV2vMemoryCache.cache
    virtV2vInflight,    \* Inspector.virtV2vInflight.calls
    inspection,      \* one run of VirtInspector.Inspect: position and locals
    session,         \* one V2VSession handle, its process and its auth file
    fstab,           \* one evaluation of ValidateMigrateableFstab
    keyPair          \* two CacheKeys and what they address

\* The state of the second inspector variant.
v2vVars == << virtV2vMemoryCache, virtV2vInflight >>

\* The state of the components that the Inspector reaches only through
\* their results.
otherVars == << inspection, session, fstab, keyPair >>

vars == << call, virtMemoryCache, virtInflight, inflightCalls, db, hist,
           run, v2vVars, otherVars >>

\* The value of a component that takes no part in a specification.
Unused == [ pc |-> "unused" ]

\* No record: the nil of a map lookup that found nothing.
NoRec == 0

\* ctxDone: the ctx the caller passed is cancelled.
IdleCall == [ pc |-> "idle", key |-> CHOOSE k \in Keys : TRUE, rec |-> NoRec,
              val |-> Nil, err |-> NoErr, isWaiter |-> FALSE,
              ctxDone |-> FALSE ]

\* role: how the invocation was served; insp: the outcome of the inspection
\* it ran; dbGet, dbSet: the outcome of its durable read and write;
\* foundStale: its lookup found a record whose completion had been signalled;
\* got: the value its durable read returned; wrote: it wrote the volatile
\* tier.
IdleHist == [ role |-> "none", insp |-> "none", foundStale |-> FALSE,
              dbGet |-> "none", got |-> Nil, dbSet |-> "none",
              wrote |-> FALSE ]

\* The zero inflightCall; wg is the WaitGroup's counter.
NewInflightCall == [ wg |-> 0, val |-> Nil, err |-> NoErr ]

\* The durable tier the caller handed to NewInspector: none, an empty
\* store, or a store that already holds a value for one key.
EmptyStore == [ k \in Keys |-> Nil ]
PreloadedKey == CacheKey(<<"a">>, <<"b">>)
DBs == { [ isNil |-> TRUE, store |-> EmptyStore, v2vStore |-> EmptyStore ],
         [ isNil |-> FALSE, store |-> EmptyStore, v2vStore |-> EmptyStore ],
         [ isNil |-> FALSE,
           store |-> [ EmptyStore EXCEPT ![PreloadedKey] = StoredValue ],
           v2vStore |-> EmptyStore ] }

\* NewInspector: empty volatile cache, empty inflight table.
Init ==
    /\ call = [ c \in Calls |-> IdleCall ]
    /\ virtMemoryCache = [ s \in KeyStrings |-> Nil ]
    /\ virtInflight = [ s \in KeyStrings |-> NoRec ]
    /\ inflightCalls = [ c \in Calls |-> NewInflightCall ]
    /\ db \in DBs
    /\ hist = [ c \in Calls |-> IdleHist ]
    /\ run = [ overlapped |-> TRUE,
               emptyTiers |-> (db.isNil \/ db.store = EmptyStore) ]
    /\ virtV2vMemoryCache = [ s \in KeyStrings |-> Nil ]
    /\ virtV2vInflight = [ s \in KeyStrings |-> NoRec ]
    /\ inspection = Unused
    /\ session = Unused
    /\ fstab = Unused
    /\ keyPair = Unused

\* virtInspectorMemoryCache.get
get(cache, k) == cache[String(k)]

\* Mutation of set: the cache keeps one entry and a set evicts the others.
set_EvictOthers(cache, k, data) ==
    [ s \in DOMAIN cache |-> IF s = String(k) THEN data ELSE Nil ]

\* virtInspectorMemoryCache.set
set(cache, k, data) == [ cache EXCEPT ![String(k)] = data ]

\* Mutation of exists: the lookup never finds a record (no coalescing).
exists_Never(t, keyStr) == FALSE

\* A lookup in inflightTracker.calls: the `exists` of `call, exists := ...`.
exists(t, keyStr) == t[keyStr] # NoRec

\* ------------------------------------------------ Inspector.InspectWithVirt
\* Mutation of InspectWithVirt: no return on a hit of the first check; the
\* call goes on to the inflight tracker.
InspectWithVirt_NoEarlyReturn(c, k) ==
    /\ call[c].pc = "idle"
    /\ call' = [ call EXCEPT ![c].pc = "lookup", ![c].key = k ]
    /\ run' = [ run EXCEPT !.overlapped =
                              (@ /\ \A d \in Calls : call[d].pc # "done") ]
    /\ UNCHANGED << virtMemoryCache, virtInflight, inflightCalls, db, hist,
                    v2vVars, otherVars >>

\* A goroutine enters InspectWithVirt, builds its key and does "Check memory
\* cache first": it returns the cached value on a hit.
InspectWithVirt(c, k) ==
    /\ call[c].pc = "idle"
    /\ LET cached == get(virtMemoryCache, k) IN
       IF cached # Nil
       THEN /\ call' = [ call EXCEPT ![c].pc = "done", ![c].key = k,
                                     ![c].val = cached, ![c].err = NoErr ]
            /\ hist' = [ hist EXCEPT ![c].role = "hit" ]
       ELSE /\ call' = [ call EXCEPT ![c].pc = "lookup", ![c].key = k ]
            /\ UNCHANGED hist
    /\ run' = [ run EXCEPT !.overlapped =
                              (@ /\ \A d \in Calls : call[d].pc # "done") ]
    /\ UNCHANGED << virtMemoryCache, virtInflight, inflightCalls, db,
                    v2vVars, otherVars >>

\* Mutation of DoLookup: the executor forgets `t.calls[keyStr] = call`.
DoLookup_NoRegister(c) ==
    /\ call[c].pc = "lookup"
    /\ LET keyStr == String(call[c].key) IN
       IF exists(virtInflight, keyStr)
       THEN /\ call' = [ call EXCEPT ![c].pc = "wait",
                                     ![c].rec = virtInflight[keyStr] ]
            /\ hist' = [ hist EXCEPT
                           ![c].role = "waiter",
                           ![c].foundStale =
                               (inflightCalls[virtInflight[keyStr]].wg = 0) ]
            /\ UNCHANGED << virtInflight, inflightCalls >>
       ELSE /\ call' = [ call EXCEPT ![c].pc = "check2", ![c].rec = c ]
            /\ inflightCalls' = [ inflightCalls EXCEPT
                                    ![c] = [ NewInflightCall EXCEPT !.wg = 1 ] ]
            /\ UNCHANGED virtInflight
            /\ hist' = [ hist EXCEPT ![c].role = "executor" ]
    /\ UNCHANGED << virtMemoryCache, db, run, v2vVars, otherVars >>

\* inflightTracker.do, the region under t.mu: find the record of the key and
\* become a waiter on it, or register a new record and become the executor.
DoLookup(c) ==
    /\ call[c].pc = "lookup"
    /\ LET keyStr == String(call[c].key) IN
       IF exists(virtInflight, keyStr)
       THEN /\ call' = [ call EXCEPT ![c].pc = "wait",
                                     ![c].rec = virtInflight[keyStr] ]
            /\ hist' = [ hist EXCEPT
                           ![c].role = "waiter",
                           ![c].foundStale =
                               (inflightCalls[virtInflight[keyStr]].wg = 0) ]
            /\ UNCHANGED << virtInflight, inflightCalls >>
       ELSE /\ call' = [ call EXCEPT ![c].pc = "check2", ![c].rec = c ]
            /\ inflightCalls' = [ inflightCalls EXCEPT
                                    ![c] = [ NewInflightCall EXCEPT !.wg = 1 ] ]
            /\ virtInflight' = [ virtInflight EXCEPT ![keyStr] = c ]
            /\ hist' = [ hist EXCEPT ![c].role = "executor" ]
    /\ UNCHANGED << virtMemoryCache, db, run, v2vVars, otherVars >>

\* Mutation of DoWait: the waiter does not wait for the completion signal.
DoWait_NoBlock(c) ==
    /\ call[c].pc = "wait"
    /\ call' = [ call EXCEPT ![c].pc = "done",
                             ![c].val = inflightCalls[call[c].rec].val,
                             ![c].err = inflightCalls[call[c].rec].err,
                             ![c].isWaiter = TRUE ]
    /\ UNCHANGED << virtMemoryCache, virtInflight, inflightCalls, db, hist, run,
                    v2vVars, otherVars >>

\* Mutation of DoWait: the waiter returns zero values, not the record's.
DoWait_ZeroResult(c) ==
    /\ call[c].pc = "wait"
    /\ inflightCalls[call[c].rec].wg = 0
    /\ call' = [ call EXCEPT ![c].pc = "done", ![c].val = Nil,
                             ![c].err = NoErr, ![c].isWaiter = TRUE ]
    /\ UNCHANGED << virtMemoryCache, virtInflight, inflightCalls, db, hist, run,
                    v2vVars, otherVars >>

\* Mutation of DoWait: the waiter also watches its own ctx and returns
\* ctx.Err() when it is cancelled before the record is complete.
DoWait_WatchCtx(c) ==
    /\ call[c].pc = "wait"
    /\ inflightCalls[call[c].rec].wg = 0 \/ call[c].ctxDone
    /\ call' = [ call EXCEPT
                   ![c].pc = "done",
                   ![c].val = IF inflightCalls[call[c].rec].wg = 0
                              THEN inflightCalls[call[c].rec].val ELSE Nil,
                   ![c].err = IF inflightCalls[call[c].rec].wg = 0
                              THEN inflightCalls[call[c].rec].err
                              ELSE << "ctx", c >>,
                   ![c].isWaiter = TRUE ]
    /\ UNCHANGED << virtMemoryCache, virtInflight, inflightCalls, db, hist, run,
                    v2vVars, otherVars >>

\* The waiter: call.wg.Wait(), then return the record's (val, err, true).
DoWait(c) ==
    /\ call[c].pc = "wait"
    /\ inflightCalls[call[c].rec].wg = 0
    /\ call' = [ call EXCEPT ![c].pc = "done",
                             ![c].val = inflightCalls[call[c].rec].val,
                             ![c].err = inflightCalls[call[c].rec].err,
                             ![c].isWaiter = TRUE ]
    /\ UNCHANGED << virtMemoryCache, virtInflight, inflightCalls, db, hist, run,
                    v2vVars, otherVars >>

\* Mutation of FnMemCheck2: the work function has no double-check.
FnMemCheck2_NoDoubleCheck(c) ==
    /\ call[c].pc = "check2"
    /\ call' = [ call EXCEPT ![c].pc = IF db.isNil THEN "inspect" ELSE "dbget" ]
    /\ UNCHANGED << virtMemoryCache, virtInflight, inflightCalls, db, hist, run,
                    v2vVars, otherVars >>

\* The work function, "Double-check memory cache".
FnMemCheck2(c) ==
    /\ call[c].pc = "check2"
    /\ LET cached == get(virtMemoryCache, call[c].key) IN
       IF cached # Nil
       THEN call' = [ call EXCEPT ![c].pc = "fnret", ![c].val = cached,
                                  ![c].err = NoErr ]
       ELSE call' = [ call EXCEPT ![c].pc = IF db.isNil THEN "inspect"
                                                        ELSE "dbget" ]
    /\ UNCHANGED << virtMemoryCache, virtInflight, inflightCalls, db, hist, run,
                    v2vVars, otherVars >>

\* DB.GetVirtInspectorXML: the stored value, nil when not found, or an error.
GetVirtInspectorXML(store, k) ==
    { [ val |-> store[k], failed |-> FALSE ], [ val |-> Nil, failed |-> TRUE ] }

\* Mutation of FnDbGet: a read error of the DB fails the work function.
FnDbGet_Fatal(c) ==
    /\ call[c].pc = "dbget"
    /\ \E r \in GetVirtInspectorXML(db.store, call[c].key) :
         /\ IF r.failed
            THEN call' = [ call EXCEPT ![c].pc = "fnret", ![c].val = Nil,
                                       ![c].err = <<"db", c>> ]
            ELSE IF r.val # Nil
                 THEN call' = [ call EXCEPT ![c].pc = "dbhit", ![c].val = r.val ]
                 ELSE call' = [ call EXCEPT ![c].pc = "inspect" ]
         /\ hist' = [ hist EXCEPT
                        ![c].dbGet = IF r.failed THEN "err"
                                     ELSE IF r.val # Nil THEN "hit" ELSE "miss",
                        ![c].got = r.val ]
    /\ UNCHANGED << virtMemoryCache, virtInflight, inflightCalls, db, run,
                    v2vVars, otherVars >>

\* The work function, "Check DB if provided": an error is logged and is a
\* miss; a non-nil value goes on to be stored in the memory cache.
FnDbGet(c) ==
    /\ call[c].pc = "dbget"
    /\ \E r \in GetVirtInspectorXML(db.store, call[c].key) :
         /\ IF r.failed
            THEN call' = [ call EXCEPT ![c].pc = "inspect" ]
            ELSE IF r.val # Nil
                 THEN call' = [ call EXCEPT ![c].pc = "dbhit", ![c].val = r.val ]
                 ELSE call' = [ call EXCEPT ![c].pc = "inspect" ]
         /\ hist' = [ hist EXCEPT
                        ![c].dbGet = IF r.failed THEN "err"
                                     ELSE IF r.val # Nil THEN "hit" ELSE "miss",
                        ![c].got = r.val ]
    /\ UNCHANGED << virtMemoryCache, virtInflight, inflightCalls, db, run,
                    v2vVars, otherVars >>

\* Mutation of FnMemSetFromDb: a durable hit is also written back to the DB.
FnMemSetFromDb_WriteBack(c) ==
    /\ call[c].pc = "dbhit"
    /\ virtMemoryCache' = set(virtMemoryCache, call[c].key, call[c].val)
    /\ \E failed \in BOOLEAN :
         /\ db' = IF failed THEN db
                  ELSE [ db EXCEPT !.store[call[c].key] = call[c].val ]
         /\ hist' = [ hist EXCEPT
                        ![c].wrote = TRUE,
                        ![c].dbSet = IF failed THEN "err" ELSE "ok" ]
    /\ call' = [ call EXCEPT ![c].pc = "fnret", ![c].err = NoErr ]
    /\ UNCHANGED << virtInflight, inflightCalls, run, v2vVars, otherVars >>

\* Mutation of FnMemSetFromDb: a durable hit is returned but not copied into
\* the memory cache.
FnMemSetFromDb_NoPopulate(c) ==
    /\ call[c].pc = "dbhit"
    /\ call' = [ call EXCEPT ![c].pc = "fnret", ![c].err = NoErr ]
    /\ UNCHANGED << virtMemoryCache, virtInflight, inflightCalls, db, hist, run,
                    v2vVars, otherVars >>

\* The work function, "Store in memory cache for faster subsequent access".
FnMemSetFromDb(c) ==
    /\ call[c].pc = "dbhit"
    /\ virtMemoryCache' = set(virtMemoryCache, call[c].key, call[c].val)
    /\ call' = [ call EXCEPT ![c].pc = "fnret", ![c].err = NoErr ]
    /\ hist' = [ hist EXCEPT ![c].wrote = TRUE ]
    /\ UNCHANGED << virtInflight, inflightCalls, db, run, v2vVars, otherVars >>

\* The work function calls p.virtInspector.Inspect.
InspectBegin(c) ==
    /\ call[c].pc = "inspect"
    /\ call' = [ call EXCEPT ![c].pc = "inspecting" ]
    /\ hist' = [ hist EXCEPT ![c].insp = "running" ]
    /\ UNCHANGED << virtMemoryCache, virtInflight, inflightCalls, db, run,
                    v2vVars, otherVars >>

\* VirtInspector.Inspect returns: a new result, or the error of the stage
\* that failed (session setup, the external tool, parsing).
Inspect(c) ==
    { [ val |-> InspectValue(c), err |-> NoErr, outcome |-> "ok" ] }
    \cup { [ val |-> Nil, err |-> InspectError(kind, c), outcome |-> kind ]
           : kind \in ErrKinds }

\* Mutation of InspectEnd: the error check is missing, so a failed
\* inspection goes on to the cache writes.
InspectEnd_CacheFailure(c) ==
    /\ call[c].pc = "inspecting"
    /\ \E r \in Inspect(c) :
         /\ call' = [ call EXCEPT ![c].pc = "memset",
                                  ![c].val = r.val, ![c].err = r.err ]
         /\ hist' = [ hist EXCEPT ![c].insp = r.outcome ]
    /\ UNCHANGED << virtMemoryCache, virtInflight, inflightCalls, db, run,
                    v2vVars, otherVars >>

\* `if err != nil { return nil, err }` after Inspect.
InspectEnd(c) ==
    /\ call[c].pc = "inspecting"
    /\ \E r \in Inspect(c) :
         /\ call' = [ call EXCEPT
                        ![c].pc = IF r.err # NoErr THEN "fnret" ELSE "memset",
                        ![c].val = r.val, ![c].err = r.err ]
         /\ hist' = [ hist EXCEPT ![c].insp = r.outcome ]
    /\ UNCHANGED << virtMemoryCache, virtInflight, inflightCalls, db, run,
                    v2vVars, otherVars >>

\* Mutation of FnMemSet: the new result is not stored in the memory cache.
FnMemSet_NoPopulate(c) ==
    /\ call[c].pc = "memset"
    /\ call' = [ call EXCEPT ![c].pc = IF db.isNil THEN "fnret" ELSE "dbset" ]
    /\ hist' = [ hist EXCEPT ![c].wrote = TRUE ]
    /\ UNCHANGED << virtMemoryCache, virtInflight, inflightCalls, db, run,
                    v2vVars, otherVars >>

\* The work function, "Store in memory cache".
FnMemSet(c) ==
    /\ call[c].pc = "memset"
    /\ virtMemoryCache' = set(virtMemoryCache, call[c].key, call[c].val)
    /\ call' = [ call EXCEPT ![c].pc = IF db.isNil THEN "fnret" ELSE "dbset" ]
    /\ hist' = [ hist EXCEPT ![c].wrote = TRUE ]
    /\ UNCHANGED << virtInflight, inflightCalls, db, run, v2vVars, otherVars >>

\* DB.SetVirtInspectorXML: the store with the value written, or an error
\* (and the store as it was).
SetVirtInspectorXML(store, k, data) ==
    { [ store |-> [ store EXCEPT ![k] = data ], failed |-> FALSE ],
      [ store |-> store, failed |-> TRUE ] }

\* Mutation of FnDbSet: a write error of the DB fails the work function.
FnDbSet_Fatal(c) ==
    /\ call[c].pc = "dbset"
    /\ \E r \in SetVirtInspectorXML(db.store, call[c].key, call[c].val) :
         /\ db' = [ db EXCEPT !.store = r.store ]
         /\ hist' = [ hist EXCEPT ![c].dbSet = IF r.failed THEN "err" ELSE "ok" ]
         /\ call' = [ call EXCEPT
                        ![c].pc = "fnret",
                        ![c].val = IF r.failed THEN Nil ELSE @,
                        ![c].err = IF r.failed THEN <<"db", c>> ELSE NoErr ]
    /\ UNCHANGED << virtMemoryCache, virtInflight, inflightCalls, run,
                    v2vVars, otherVars >>

\* The work function, "Store in DB if provided": an error is logged only.
FnDbSet(c) ==
    /\ call[c].pc = "dbset"
    /\ \E r \in SetVirtInspectorXML(db.store, call[c].key, call[c].val) :
         /\ db' = [ db EXCEPT !.store = r.store ]
         /\ hist' = [ hist EXCEPT ![c].dbSet = IF r.failed THEN "err" ELSE "ok" ]
    /\ call' = [ call EXCEPT ![c].pc = "fnret", ![c].err = NoErr ]
    /\ UNCHANGED << virtMemoryCache, virtInflight, inflightCalls, run,
                    v2vVars, otherVars >>

\* Mutation of DoDone: the result is stored in the record but the completion
\* is never signalled.
DoDone_NoSignal(c) ==
    /\ call[c].pc = "fnret"
    /\ inflightCalls' = [ inflightCalls EXCEPT ![c].val = call[c].val,
                                               ![c].err = call[c].err ]
    /\ call' = [ call EXCEPT ![c].pc = "dereg" ]
    /\ UNCHANGED << virtMemoryCache, virtInflight, db, hist, run,
                    v2vVars, otherVars >>

\* inflightTracker.do: `call.val, call.err = fn()` and `call.wg.Done()`.
\* Nothing reads the record's fields before its completion is signalled.
DoDone(c) ==
    /\ call[c].pc = "fnret"
    /\ inflightCalls' = [ inflightCalls EXCEPT ![c].val = call[c].val,
                                               ![c].err = call[c].err,
                                               ![c].wg = @ - 1 ]
    /\ call' = [ call EXCEPT ![c].pc = "dereg" ]
    /\ UNCHANGED << virtMemoryCache, virtInflight, db, hist, run,
                    v2vVars, otherVars >>

\* Mutation of DoDelete: the executor returns without `delete(t.calls,
\* keyStr)`.
DoDelete_Retain(c) ==
    /\ call[c].pc = "dereg"
    /\ call' = [ call EXCEPT ![c].pc = "done",
                             ![c].val = inflightCalls[c].val,
                             ![c].err = inflightCalls[c].err,
                             ![c].isWaiter = FALSE ]
    /\ UNCHANGED << virtMemoryCache, virtInflight, inflightCalls, db, hist,
                    run, v2vVars, otherVars >>

\* inflightTracker.do: "Remove from inflight map" under t.mu, then return
\* the record's (val, err, false).
DoDelete(c) ==
    /\ call[c].pc = "dereg"
    /\ virtInflight' = [ virtInflight EXCEPT ![String(call[c].key)] = NoRec ]
    /\ call' = [ call EXCEPT ![c].pc = "done",
                             ![c].val = inflightCalls[c].val,
                             ![c].err = inflightCalls[c].err,
                             ![c].isWaiter = FALSE ]
    /\ UNCHANGED << virtMemoryCache, inflightCalls, db, hist, run,
                    v2vVars, otherVars >>

Next ==
    \E c \in Calls :
        \/ \E k \in Keys : InspectWithVirt(c, k)
        \/ DoLookup(c)
        \/ DoWait(c)
        \/ FnMemCheck2(c)
        \/ FnDbGet(c)
        \/ FnMemSetFromDb(c)
        \/ InspectBegin(c)
        \/ InspectEnd(c)
        \/ FnMemSet(c)
        \/ FnDbSet(c)
        \/ DoDone(c)
        \/ DoDelete(c)

Spec == Init /\ [][Next]_vars

\* ------------------------------------------- Inspector.InspectWithVirtV2v
\* The second variant of the Inspector: the same steps as InspectWithVirt,
\* on virtV2vMemoryCache, virtV2vInflight, virtV2vInspector and the
\* VirtV2V methods of the DB.  Its program counters begin with "v2v_", the
\* roles it records in hist begin with "v2v-".

\* The result allocated by the virt-v2v inspection that call c ran, and a
\* virt-v2v result that was in the durable store before the run.
V2vInspectValue(c) == << "v2vval", c >>
V2vStoredValue == << "v2vdb", 0 >>

virtVars == << virtMemoryCache, virtInflight >>

\* virtV2vInspectorMemoryCache.get
v2vGet(cache, k) == cache[String(k)]

\* virtV2vInspectorMemoryCache.set
v2vSet(cache, k, data) == [ cache EXCEPT ![String(k)] = data ]

\* Mutation of InspectWithVirtV2v: the first check reads the memory cache
\* of the other variant.
InspectWithVirtV2v_SharedCache(c, k) ==
    /\ call[c].pc = "idle"
    /\ LET cached == get(virtMemoryCache, k) IN
       IF cached # Nil
       THEN /\ call' = [ call EXCEPT ![c].pc = "done", ![c].key = k,
                                     ![c].val = cached, ![c].err = NoErr ]
            /\ hist' = [ hist EXCEPT ![c].role = "v2v-hit" ]
       ELSE /\ call' = [ call EXCEPT ![c].pc = "v2v_lookup", ![c].key = k ]
            /\ UNCHANGED hist
    /\ run' = [ run EXCEPT !.overlapped =
                              (@ /\ \A d \in Calls : call[d].pc # "done") ]
    /\ UNCHANGED << virtV2vMemoryCache, virtV2vInflight, inflightCalls, db,
                    virtVars, otherVars >>

\* A goroutine enters InspectWithVirtV2v, builds its key and checks the
\* virt-v2v memory cache first: it returns the cached value on a hit.
InspectWithVirtV2v(c, k) ==
    /\ call[c].pc = "idle"
    /\ LET cached == v2vGet(virtV2vMemoryCache, k) IN
       IF cached # Nil
       THEN /\ call' = [ call EXCEPT ![c].pc = "done", ![c].key = k,
                                     ![c].val = cached, ![c].err = NoErr ]
            /\ hist' = [ hist EXCEPT ![c].role = "v2v-hit" ]
       ELSE /\ call' = [ call EXCEPT ![c].pc = "v2v_lookup", ![c].key = k ]
            /\ UNCHANGED hist
    /\ run' = [ run EXCEPT !.overlapped =
                              (@ /\ \A d \in Calls : call[d].pc # "done") ]
    /\ UNCHANGED << virtV2vMemoryCache, virtV2vInflight, inflightCalls, db,
                    virtVars, otherVars >>

\* virtV2vInflight.do: lookup in the virt-v2v inflight table under t.mu; a
\* record found makes the caller a waiter, otherwise it registers its own.
V2vDoLookup(c) ==
    /\ call[c].pc = "v2v_lookup"
    /\ LET keyStr == String(call[c].key) IN
       IF exists(virtV2vInflight, keyStr)
       THEN /\ call' = [ call EXCEPT ![c].pc = "v2v_wait",
                                     ![c].rec = virtV2vInflight[keyStr] ]
            /\ hist' = [ hist EXCEPT
                           ![c].role = "v2v-waiter",
                           ![c].foundStale =
                               (inflightCalls[virtV2vInflight[keyStr]].wg = 0) ]
            /\ UNCHANGED << virtV2vInflight, inflightCalls >>
       ELSE /\ call' = [ call EXCEPT ![c].pc = "v2v_check2", ![c].rec = c ]
            /\ inflightCalls' = [ inflightCalls EXCEPT
                                    ![c] = [ NewInflightCall EXCEPT !.wg = 1 ] ]
            /\ virtV2vInflight' = [ virtV2vInflight EXCEPT ![keyStr] = c ]
            /\ hist' = [ hist EXCEPT ![c].role = "v2v-executor" ]
    /\ UNCHANGED << virtV2vMemoryCache, db, run, virtVars, otherVars >>

\* virtV2vInflight.do, waiter: call.wg.Wait() returns, then the record's
\* (val, err, true).
V2vDoWait(c) ==
    /\ call[c].pc = "v2v_wait"
    /\ inflightCalls[call[c].rec].wg = 0
    /\ call' = [ call EXCEPT ![c].pc = "done",
                             ![c].val = inflightCalls[call[c].rec].val,
                             ![c].err = inflightCalls[call[c].rec].err,
                             ![c].isWaiter = TRUE ]
    /\ UNCHANGED << virtV2vMemoryCache, virtV2vInflight, inflightCalls, db, hist, run,
                    virtVars, otherVars >>

\* The work function of InspectWithVirtV2v: the double-check of the
\* virt-v2v memory cache.
V2vFnMemCheck2(c) ==
    /\ call[c].pc = "v2v_check2"
    /\ LET cached == v2vGet(virtV2vMemoryCache, call[c].key) IN
       IF cached # Nil
       THEN call' = [ call EXCEPT ![c].pc = "v2v_fnret", ![c].val = cached,
                                  ![c].err = NoErr ]
       ELSE call' = [ call EXCEPT ![c].pc = IF db.isNil THEN "v2v_inspect"
                                                        ELSE "v2v_dbget" ]
    /\ UNCHANGED << virtV2vMemoryCache, virtV2vInflight, inflightCalls, db, hist, run,
                    virtVars, otherVars >>

\* DB.GetVirtV2VInspectorXML: the stored value (nil when there is none), or
\* an error.
GetVirtV2VInspectorXML(store, k) ==
    { [ val |-> store[k], failed |-> FALSE ], [ val |-> Nil, failed |-> TRUE ] }

\* The work function: "Check DB if provided"; an error is a miss.
V2vFnDbGet(c) ==
    /\ call[c].pc = "v2v_dbget"
    /\ \E r \in GetVirtV2VInspectorXML(db.v2vStore, call[c].key) :
         /\ IF r.failed
            THEN call' = [ call EXCEPT ![c].pc = "v2v_inspect" ]
            ELSE IF r.val # Nil
                 THEN call' = [ call EXCEPT ![c].pc = "v2v_dbhit", ![c].val = r.val ]
                 ELSE call' = [ call EXCEPT ![c].pc = "v2v_inspect" ]
         /\ hist' = [ hist EXCEPT
                        ![c].dbGet = IF r.failed THEN "err"
                                     ELSE IF r.val # Nil THEN "hit" ELSE "miss",
                        ![c].got = r.val ]
    /\ UNCHANGED << virtV2vMemoryCache, virtV2vInflight, inflightCalls, db, run,
                    virtVars, otherVars >>

\* The work function: a durable hit is stored in the virt-v2v memory cache
\* and returned.
V2vFnMemSetFromDb(c) ==
    /\ call[c].pc = "v2v_dbhit"
    /\ virtV2vMemoryCache' = v2vSet(virtV2vMemoryCache, call[c].key, call[c].val)
    /\ call' = [ call EXCEPT ![c].pc = "v2v_fnret", ![c].err = NoErr ]
    /\ hist' = [ hist EXCEPT ![c].wrote = TRUE ]
    /\ UNCHANGED << virtV2vInflight, inflightCalls, db, run, virtVars, otherVars >>

\* The work function calls virtV2vInspector.Inspect.
V2vInspectBegin(c) ==
    /\ call[c].pc = "v2v_inspect"
    /\ call' = [ call EXCEPT ![c].pc = "v2v_inspecting" ]
    /\ hist' = [ hist EXCEPT ![c].insp = "running" ]
    /\ UNCHANGED << virtV2vMemoryCache, virtV2vInflight, inflightCalls, db, run,
                    virtVars, otherVars >>

\* VirtV2vInspector.Inspect: a result, or the error of one of its stages.
V2vInspect(c) ==
    { [ val |-> V2vInspectValue(c), err |-> NoErr, outcome |-> "ok" ] }
    \cup { [ val |-> Nil, err |-> InspectError(kind, c), outcome |-> kind ]
           : kind \in ErrKinds }

\* virtV2vInspector.Inspect returns; an error is returned as it is.
V2vInspectEnd(c) ==
    /\ call[c].pc = "v2v_inspecting"
    /\ \E r \in V2vInspect(c) :
         /\ call' = [ call EXCEPT
                        ![c].pc = IF r.err # NoErr THEN "v2v_fnret" ELSE "v2v_memset",
                        ![c].val = r.val, ![c].err = r.err ]
         /\ hist' = [ hist EXCEPT ![c].insp = r.outcome ]
    /\ UNCHANGED << virtV2vMemoryCache, virtV2vInflight, inflightCalls, db, run,
                    virtVars, otherVars >>

\* The work function: "Store in memory cache".
V2vFnMemSet(c) ==
    /\ call[c].pc = "v2v_memset"
    /\ virtV2vMemoryCache' = v2vSet(virtV2vMemoryCache, call[c].key, call[c].val)
    /\ call' = [ call EXCEPT ![c].pc = IF db.isNil THEN "v2v_fnret" ELSE "v2v_dbset" ]
    /\ hist' = [ hist EXCEPT ![c].wrote = TRUE ]
    /\ UNCHANGED << virtV2vInflight, inflightCalls, db, run, virtVars, otherVars >>

\* DB.SetVirtV2VInspectorXML: the value is stored, or an error.
SetVirtV2VInspectorXML(store, k, data) ==
    { [ store |-> [ store EXCEPT ![k] = data ], failed |-> FALSE ],
      [ store |-> store, failed |-> TRUE ] }

\* The work function: "Store in DB if provided"; an error is logged only.
V2vFnDbSet(c) ==
    /\ call[c].pc = "v2v_dbset"
    /\ \E r \in SetVirtV2VInspectorXML(db.v2vStore, call[c].key, call[c].val) :
         /\ db' = [ db EXCEPT !.v2vStore = r.store ]
         /\ hist' = [ hist EXCEPT ![c].dbSet = IF r.failed THEN "err" ELSE "ok" ]
    /\ call' = [ call EXCEPT ![c].pc = "v2v_fnret", ![c].err = NoErr ]
    /\ UNCHANGED << virtV2vMemoryCache, virtV2vInflight, inflightCalls, run,
                    virtVars, otherVars >>

\* virtV2vInflight.do, executor: fn returned, its result is stored in the
\* record and call.wg.Done() signals the waiters.
V2vDoDone(c) ==
    /\ call[c].pc = "v2v_fnret"
    /\ inflightCalls' = [ inflightCalls EXCEPT ![c].val = call[c].val,
                                               ![c].err = call[c].err,
                                               ![c].wg = @ - 1 ]
    /\ call' = [ call EXCEPT ![c].pc = "v2v_dereg" ]
    /\ UNCHANGED << virtV2vMemoryCache, virtV2vInflight, db, hist, run,
                    virtVars, otherVars >>

\* virtV2vInflight.do, executor: the record is removed under t.mu, then
\* the return.
V2vDoDelete(c) ==
    /\ call[c].pc = "v2v_dereg"
    /\ virtV2vInflight' = [ virtV2vInflight EXCEPT ![String(call[c].key)] = NoRec ]
    /\ call' = [ call EXCEPT ![c].pc = "done",
                             ![c].val = inflightCalls[c].val,
                             ![c].err = inflightCalls[c].err,
                             ![c].isWaiter = FALSE ]
    /\ UNCHANGED << virtV2vMemoryCache, inflightCalls, db, hist, run,
                    virtVars, otherVars >>

\* The durable tier for runs of both variants: none, or a store that holds
\* a value of each variant for one key.
DBsBoth ==
    { [ isNil |-> TRUE, store |-> EmptyStore, v2vStore |-> EmptyStore ],
      [ isNil |-> FALSE,
        store |-> [ EmptyStore EXCEPT ![PreloadedKey] = StoredValue ],
        v2vStore |-> [ EmptyStore EXCEPT ![PreloadedKey] = V2vStoredValue ] ] }

\* NewInspector: both volatile caches and both inflight tables are empty.
InitBoth ==
    /\ call = [ c \in Calls |-> IdleCall ]
    /\ virtMemoryCache = [ s \in KeyStrings |-> Nil ]
    /\ virtInflight = [ s \in KeyStrings |-> NoRec ]
    /\ inflightCalls = [ c \in Calls |-> NewInflightCall ]
    /\ db \in DBsBoth
    /\ hist = [ c \in Calls |-> IdleHist ]
    /\ run = [ overlapped |-> TRUE, emptyTiers |-> db.isNil ]
    /\ virtV2vMemoryCache = [ s \in KeyStrings |-> Nil ]
    /\ virtV2vInflight = [ s \in KeyStrings |-> NoRec ]
    /\ inspection = Unused
    /\ session = Unused
    /\ fstab = Unused
    /\ keyPair = Unused

\* The keys used in runs of both variants: the key the store holds, and
\* one it does not hold.
BothKeys == { PreloadedKey, CacheKey(<<"a", ":">>, <<"b">>) }

\* Calls of both variants on one Inspector.
NextBoth ==
    \E c \in Calls :
        \/ \E k \in BothKeys : InspectWithVirt(c, k)
        \/ DoLookup(c)
        \/ DoWait(c)
        \/ FnMemCheck2(c)
        \/ FnDbGet(c)
        \/ FnMemSetFromDb(c)
        \/ InspectBegin(c)
        \/ InspectEnd(c)
        \/ FnMemSet(c)
        \/ FnDbSet(c)
        \/ DoDone(c)
        \/ DoDelete(c)
        \/ \E k \in BothKeys : InspectWithVirtV2v(c, k)
        \/ V2vDoLookup(c)
        \/ V2vDoWait(c)
        \/ V2vFnMemCheck2(c)
        \/ V2vFnDbGet(c)
        \/ V2vFnMemSetFromDb(c)
        \/ V2vInspectBegin(c)
        \/ V2vInspectEnd(c)
        \/ V2vFnMemSet(c)
        \/ V2vFnDbSet(c)
        \/ V2vDoDone(c)
        \/ V2vDoDelete(c)

SpecBoth == InitBoth /\ [][NextBoth]_vars

\* ------------------------------------------------- VirtInspector.Inspect
\* One run of VirtInspector.Inspect.  A step is one call to an external
\* collaborator (OpenWithNBDKitVDDK, WaitForReady, OpenWithVirtV2V, the
\* sleep, the virt-inspector command) together with the code that follows
\* it up to the next call.  SpecInspect is the build as it is, with the
\* per-disk strategy (UseVirtV2VOpen = false); SpecInspectV2VOpen is the
\* build with the switch set, the single-session strategy.
\* Disk indices are 1-based here; the code's idx is 0-based.

\* Largest number of BaseDiskPaths in the snapshot disk info.
MaxDisks == 2

\* Largest number of operating systems in the tool's output.
MaxOS == 2

Disks == 1..MaxDisks

\* The compile-time strategy switch.
UseVirtV2VOpen == FALSE

\* diskInfo: a nil pointer, or a SnapshotDiskInfo with n BaseDiskPaths.
NilDiskInfo == [ isNil |-> TRUE, BaseDiskPaths |-> << >> ]
DiskInfo(n) == [ isNil |-> FALSE, BaseDiskPaths |-> [ j \in 1..n |-> j ] ]
DiskInfos == { NilDiskInfo } \cup { DiskInfo(n) : n \in 0..MaxDisks }

\* NBDKitSession.NBDURL of the session serving disk j.
NBDURL(j) == << "nbd", j >>

\* A session that was never opened.  listening: its endpoint accepts
\* connections; ready: a WaitForReady on it returned nil; closes counts
\* its Close calls.
NoSession == [ opened |-> FALSE, listening |-> FALSE, ready |-> FALSE,
               closes |-> 0 ]

\* OpenWithNBDKitVDDK: a handle (TRUE) or an error (FALSE); with a context
\* that is already done the process start fails.
OpenWithNBDKitVDDK(ctxDone) == IF ctxDone THEN { FALSE } ELSE { TRUE, FALSE }

\* NBDKitSession.WaitForReady: nil (TRUE) when the endpoint accepted a
\* connection within the timeout, an error (FALSE) otherwise.
WaitForReady(s) == IF s.listening THEN { TRUE } ELSE { FALSE }

\* The inputs of OpenWithVirtV2V that decide its early returns.
VCenterURLs == { "https://vc/sdk", "%malformed" }
Datacenters == { "", "dc" }

\* V2VSession.NBDURL
V2VNBDURL == << "nbd://localhost:10809", 0 >>

\* OpenWithVirtV2V: the error it returns, or "ok" with a handle.  The URL
\* is parsed, the datacenter must not be empty, the auth file is created,
\* the process is started; with a context that is already done the start
\* fails.
OpenWithVirtV2V(ctxDone, vcenterURL, datacenter) ==
    IF vcenterURL = "%malformed" THEN { "url" }
    ELSE IF datacenter = "" THEN { "datacenter" }
    ELSE { "authfile", "start" } \cup (IF ctxDone THEN { } ELSE { "ok" })

\* NBDKitSession.Close.
NBDKitSession_Close(s) == [ s EXCEPT !.closes = @ + 1 ]

\* `for _, session := range nbdkitSessions { session.Close() }`
CloseSessions(sessions, list) ==
    [ j \in Disks |->
        IF \E n \in 1..Len(list) : list[n] = j
        THEN NBDKitSession_Close(sessions[j])
        ELSE sessions[j] ]

\* The virt-inspector command: it fails (FALSE) or prints an output that is
\* well-formed XML or not and lists nOS operating systems.
Outputs == { [ valid |-> v, nOS |-> n ] : v \in BOOLEAN, n \in 0..MaxOS }
NoOutput == [ valid |-> FALSE, nOS |-> 0 ]

\* Mutation of parseInspectionXML: no check of the number of operating
\* systems.
parseInspectionXML_NoOSCheck(output) ==
    IF ~output.valid THEN [ val |-> Nil, err |-> << "xml", 0 >> ]
    ELSE [ val |-> << "xml", output.nOS >>, err |-> NoErr ]

\* parseInspectionXML: an error for XML that does not parse and for an
\* output without operating systems.
parseInspectionXML(output) ==
    IF ~output.valid THEN [ val |-> Nil, err |-> << "xml", 0 >> ]
    ELSE IF output.nOS = 0 THEN [ val |-> Nil, err |-> << "no-os", 0 >> ]
    ELSE [ val |-> << "xml", output.nOS >>, err |-> NoErr ]

\* The state of Inspect on entry.
NewInspection(mode, url, dc, d) ==
    [ pc |-> "start", UseVirtV2VOpen |-> mode, vcenterURL |-> url,
      datacenter |-> dc, diskInfo |-> d, ctxDone |-> FALSE, idx |-> 0,
      nbdkitSessions |-> << >>, nbdURLs |-> << >>, sessionCloser |-> << >>,
      sessions |-> [ j \in Disks |-> NoSession ],
      toolRuns |-> 0, toolArgs |-> << >>, output |-> NoOutput,
      val |-> Nil, err |-> NoErr ]

inspectorVars == << call, virtMemoryCache, virtInflight, inflightCalls, db,
                    hist, run >>

InitInspection(mode) ==
    /\ inspection \in { NewInspection(mode, url, dc, d) :
                           url \in VCenterURLs, dc \in Datacenters,
                           d \in DiskInfos }
    /\ call = [ c \in Calls |-> IdleCall ]
    /\ virtMemoryCache = [ s \in KeyStrings |-> Nil ]
    /\ virtInflight = [ s \in KeyStrings |-> NoRec ]
    /\ inflightCalls = [ c \in Calls |-> NewInflightCall ]
    /\ db = [ isNil |-> TRUE, store |-> EmptyStore, v2vStore |-> EmptyStore ]
    /\ hist = [ c \in Calls |-> IdleHist ]
    /\ run = [ overlapped |-> TRUE, emptyTiers |-> TRUE ]
    /\ virtV2vMemoryCache = [ s \in KeyStrings |-> Nil ]
    /\ virtV2vInflight = [ s \in KeyStrings |-> NoRec ]
    /\ session = Unused
    /\ fstab = Unused
    /\ keyPair = Unused

InitInspect == InitInspection(UseVirtV2VOpen)

InitInspectV2VOpen == InitInspection(~UseVirtV2VOpen)

\* The caller's context is cancelled or its deadline passes.
CtxCancel ==
    /\ inspection.pc \in { "start", "open", "ready", "sleep", "run",
                           "parse" }
    /\ ~inspection.ctxDone
    /\ inspection' = [ inspection EXCEPT !.ctxDone = TRUE ]
    /\ UNCHANGED << inspectorVars, v2vVars, session, fstab, keyPair >>

\* The NBD server of an open session begins to accept connections.
EndpointUp ==
    /\ inspection.pc \in { "open", "ready", "sleep", "run", "parse" }
    /\ \E j \in Disks :
         /\ inspection.sessions[j].opened
         /\ ~inspection.sessions[j].listening
         /\ inspection' = [ inspection EXCEPT !.sessions[j].listening = TRUE ]
    /\ UNCHANGED << inspectorVars, v2vVars, session, fstab, keyPair >>

\* Entry of the per-disk branch: the log call dereferences diskInfo, then
\* the loop over diskInfo.BaseDiskPaths begins.
InspectEnter ==
    /\ inspection.pc = "start"
    /\ ~inspection.UseVirtV2VOpen
    /\ inspection' =
         IF inspection.diskInfo.isNil
         THEN [ inspection EXCEPT !.pc = "panic" ]
         ELSE IF Len(inspection.diskInfo.BaseDiskPaths) = 0
         THEN [ inspection EXCEPT !.pc = "run", !.sessionCloser = << >> ]
         ELSE [ inspection EXCEPT !.pc = "open", !.idx = 1 ]
    /\ UNCHANGED << inspectorVars, v2vVars, session, fstab, keyPair >>

\* Mutation of InspectOpen: the URL of the new session is put in front of
\* nbdURLs, not appended.
InspectOpen_PrependURL ==
    /\ inspection.pc = "open"
    /\ \E ok \in OpenWithNBDKitVDDK(inspection.ctxDone) :
         LET i == inspection.idx IN
         IF ok
         THEN inspection' =
                [ inspection EXCEPT
                    !.pc = "ready",
                    !.sessions[i].opened = TRUE,
                    !.nbdkitSessions = Append(@, i),
                    !.nbdURLs = << NBDURL(i) >> \o @ ]
         ELSE inspection' =
                [ inspection EXCEPT
                    !.pc = "returned",
                    !.sessions = CloseSessions(@, inspection.nbdkitSessions),
                    !.err = << "open", i >> ]
    /\ UNCHANGED << inspectorVars, v2vVars, session, fstab, keyPair >>

\* Mutation of InspectOpen: on an open failure the sessions already created
\* are not closed.
InspectOpen_NoRollback ==
    /\ inspection.pc = "open"
    /\ \E ok \in OpenWithNBDKitVDDK(inspection.ctxDone) :
         LET i == inspection.idx IN
         IF ok
         THEN inspection' =
                [ inspection EXCEPT
                    !.pc = "ready",
                    !.sessions[i].opened = TRUE,
                    !.nbdkitSessions = Append(@, i),
                    !.nbdURLs = Append(@, NBDURL(i)) ]
         ELSE inspection' =
                [ inspection EXCEPT !.pc = "returned",
                                    !.err = << "open", i >> ]
    /\ UNCHANGED << inspectorVars, v2vVars, session, fstab, keyPair >>

\* One iteration of the loop up to WaitForReady: OpenWithNBDKitVDDK for the
\* disk at idx; on an error every session in nbdkitSessions is closed and
\* Inspect returns "failed to start NBDkit session for disk idx"; otherwise
\* the session and its URL are appended.
InspectOpen ==
    /\ inspection.pc = "open"
    /\ \E ok \in OpenWithNBDKitVDDK(inspection.ctxDone) :
         LET i == inspection.idx IN
         IF ok
         THEN inspection' =
                [ inspection EXCEPT
                    !.pc = "ready",
                    !.sessions[i].opened = TRUE,
                    !.nbdkitSessions = Append(@, i),
                    !.nbdURLs = Append(@, NBDURL(i)) ]
         ELSE inspection' =
                [ inspection EXCEPT
                    !.pc = "returned",
                    !.sessions = CloseSessions(@, inspection.nbdkitSessions),
                    !.err = << "open", i >> ]
    /\ UNCHANGED << inspectorVars, v2vVars, session, fstab, keyPair >>

\* Mutation of InspectWaitForReady: on a readiness error only the sessions
\* of the earlier disks are closed, not the one that failed.
InspectWaitForReady_LeakCurrent ==
    /\ inspection.pc = "ready"
    /\ \E ok \in WaitForReady(inspection.sessions[inspection.idx]) :
         LET i == inspection.idx
             n == Len(inspection.diskInfo.BaseDiskPaths) IN
         IF ok
         THEN inspection' =
                [ inspection EXCEPT
                    !.sessions[i].ready = TRUE,
                    !.pc = IF i < n THEN "open" ELSE "run",
                    !.idx = IF i < n THEN i + 1 ELSE i,
                    !.sessionCloser = IF i < n THEN @
                                       ELSE inspection.nbdkitSessions ]
         ELSE inspection' =
                [ inspection EXCEPT
                    !.pc = "returned",
                    !.sessions = CloseSessions(@,
                        SubSeq(inspection.nbdkitSessions, 1, i - 1)),
                    !.err = << "ready", i >> ]
    /\ UNCHANGED << inspectorVars, v2vVars, session, fstab, keyPair >>

\* Mutation of InspectWaitForReady: a readiness error is ignored and the
\* loop goes on to the next disk.
InspectWaitForReady_IgnoreError ==
    /\ inspection.pc = "ready"
    /\ \E ok \in WaitForReady(inspection.sessions[inspection.idx]) :
         LET i == inspection.idx
             n == Len(inspection.diskInfo.BaseDiskPaths) IN
         inspection' =
           [ inspection EXCEPT
               !.sessions[i].ready = ok,
               !.pc = IF i < n THEN "open" ELSE "run",
               !.idx = IF i < n THEN i + 1 ELSE i,
               !.sessionCloser = IF i < n THEN @
                                       ELSE inspection.nbdkitSessions ]
    /\ UNCHANGED << inspectorVars, v2vVars, session, fstab, keyPair >>

\* The rest of the iteration: WaitForReady on the session just opened; on
\* an error every session in nbdkitSessions, the current one included, is
\* closed and Inspect returns "NBD server not ready for disk idx"; otherwise
\* the loop goes on to the next disk, or ends and sessionCloser is made the
\* function that closes every session in nbdkitSessions.
InspectWaitForReady ==
    /\ inspection.pc = "ready"
    /\ \E ok \in WaitForReady(inspection.sessions[inspection.idx]) :
         LET i == inspection.idx
             n == Len(inspection.diskInfo.BaseDiskPaths) IN
         IF ok
         THEN inspection' =
                [ inspection EXCEPT
                    !.sessions[i].ready = TRUE,
                    !.pc = IF i < n THEN "open" ELSE "run",
                    !.idx = IF i < n THEN i + 1 ELSE i,
                    !.sessionCloser = IF i < n THEN @
                                       ELSE inspection.nbdkitSessions ]
         ELSE inspection' =
                [ inspection EXCEPT
                    !.pc = "returned",
                    !.sessions = CloseSessions(@, inspection.nbdkitSessions),
                    !.err = << "ready", i >> ]
    /\ UNCHANGED << inspectorVars, v2vVars, session, fstab, keyPair >>

\* The virt-inspector command run with inspectCtx: an error, or an output.
\* With a context that is already done the command fails.
CombinedOutput(ctxDone) ==
    IF ctxDone THEN { [ ok |-> FALSE, output |-> NoOutput ] }
    ELSE { [ ok |-> FALSE, output |-> NoOutput ] }
         \cup { [ ok |-> TRUE, output |-> o ] : o \in Outputs }

\* Mutation of InspectOpenV2V: the handle is not made the session closer.
InspectOpenV2V_NoCloser ==
    /\ inspection.pc = "start"
    /\ inspection.UseVirtV2VOpen
    /\ \E r \in OpenWithVirtV2V(inspection.ctxDone, inspection.vcenterURL,
                                 inspection.datacenter) :
         IF r = "ok"
         THEN inspection' =
                [ inspection EXCEPT
                    !.pc = "sleep",
                    !.sessions[1].opened = TRUE,
                    !.nbdURLs = << V2VNBDURL >> ]
         ELSE inspection' =
                [ inspection EXCEPT !.pc = "returned",
                                    !.err = << r, 0 >> ]
    /\ UNCHANGED << inspectorVars, v2vVars, session, fstab, keyPair >>

\* The single-session branch up to the sleep: OpenWithVirtV2V; on an error
\* Inspect returns it; otherwise nbdURLs is the session's URL and
\* sessionCloser is the session's Close.  The session is session 1.
InspectOpenV2V ==
    /\ inspection.pc = "start"
    /\ inspection.UseVirtV2VOpen
    /\ \E r \in OpenWithVirtV2V(inspection.ctxDone, inspection.vcenterURL,
                                 inspection.datacenter) :
         IF r = "ok"
         THEN inspection' =
                [ inspection EXCEPT
                    !.pc = "sleep",
                    !.sessions[1].opened = TRUE,
                    !.nbdURLs = << V2VNBDURL >>,
                    !.sessionCloser = << 1 >> ]
         ELSE inspection' =
                [ inspection EXCEPT !.pc = "returned",
                                    !.err = << r, 0 >> ]
    /\ UNCHANGED << inspectorVars, v2vVars, session, fstab, keyPair >>

\* "Give NBD time to initialize": time.Sleep(4 * time.Second) returns.
InspectSleep ==
    /\ inspection.pc = "sleep"
    /\ inspection' = [ inspection EXCEPT !.pc = "run" ]
    /\ UNCHANGED << inspectorVars, v2vVars, session, fstab, keyPair >>

\* After the branch: sessionCloser is deferred, the command line is built
\* from nbdURLs and run.  On a failure Inspect returns
\* "virt-inspector failed" and the deferred sessionCloser closes every
\* session.
InspectRun ==
    /\ inspection.pc = "run"
    /\ \E r \in CombinedOutput(inspection.ctxDone) :
         IF r.ok
         THEN inspection' =
                [ inspection EXCEPT
                    !.pc = "parse",
                    !.toolRuns = @ + 1,
                    !.toolArgs = inspection.nbdURLs,
                    !.output = r.output ]
         ELSE inspection' =
                [ inspection EXCEPT
                    !.pc = "returned",
                    !.toolRuns = @ + 1,
                    !.toolArgs = inspection.nbdURLs,
                    !.sessions = CloseSessions(@, inspection.sessionCloser),
                    !.err = << "tool", 0 >> ]
    /\ UNCHANGED << inspectorVars, v2vVars, session, fstab, keyPair >>

\* parseInspectionXML on the output, then the return; the deferred
\* sessionCloser closes every session.
InspectParse ==
    /\ inspection.pc = "parse"
    /\ LET r == parseInspectionXML(inspection.output) IN
       inspection' =
         [ inspection EXCEPT
             !.pc = "returned",
             !.sessions = CloseSessions(@, inspection.sessionCloser),
             !.val = r.val,
             !.err = IF r.err = NoErr THEN NoErr ELSE << "parse", 0 >> ]
    /\ UNCHANGED << inspectorVars, v2vVars, session, fstab, keyPair >>

NextInspect ==
    \/ CtxCancel
    \/ EndpointUp
    \/ InspectEnter
    \/ InspectOpen
    \/ InspectWaitForReady
    \/ InspectRun
    \/ InspectParse

SpecInspect == InitInspect /\ [][NextInspect]_vars

NextInspectV2VOpen ==
    \/ CtxCancel
    \/ EndpointUp
    \/ InspectOpenV2V
    \/ InspectSleep
    \/ InspectRun
    \/ InspectParse

SpecInspectV2VOpen == InitInspectV2VOpen /\ [][NextInspectV2VOpen]_vars

\* ------------------------------------------------------------- V2VSession
\* The life of one V2VSession: OpenWithVirtV2V makes the handle (or the
\* handle is put together by hand, with parts missing), and the holder
\* calls Close on it, more than once.  The process and the auth file are
\* the operating system's: proc is "none", "running", "exited" (terminated,
\* not yet waited for) or "reaped"; file tells whether the auth file exists.

\* Largest number of Close calls on one handle.
MaxCloses == 2

\* A nil *V2VSession, and the handles with parts missing: cmd is nil, or
\* was never started (cmd.Process is nil), or was started; authFile is
\* empty or a path.
NilHandle == [ isNil |-> TRUE, cmd |-> "nil", authFile |-> "" ]
Handle(cmd, authFile) == [ isNil |-> FALSE, cmd |-> cmd, authFile |-> authFile ]
Handles == { NilHandle } \cup
           { Handle(c, a) : c \in { "nil", "unstarted", "started" },
                            a \in { "", "path" } }

NewSession(pc, url, dc, h, proc, file) ==
    [ pc |-> pc, vcenterURL |-> url, datacenter |-> dc, ctxDone |-> FALSE,
      handle |-> h, err |-> NoErr, proc |-> proc, file |-> file,
      closes |-> 0, kills |-> 0, removes |-> 0,
      afterFirst |-> [ proc |-> proc, file |-> file ] ]

\* Either OpenWithVirtV2V is about to be called, or the holder has a handle
\* that was put together by hand.
InitSession ==
    /\ session \in
         { NewSession("open", url, dc, NilHandle, "none", FALSE) :
             url \in VCenterURLs, dc \in Datacenters }
         \cup
         { NewSession("held", "https://vc/sdk", "dc", h, p, f) :
             h \in Handles, p \in { "none", "running", "exited" },
             f \in BOOLEAN }
    /\ (session.proc # "none") = (session.handle.cmd = "started")
    /\ session.file => session.handle.authFile = "path"
    /\ call = [ c \in Calls |-> IdleCall ]
    /\ virtMemoryCache = [ s \in KeyStrings |-> Nil ]
    /\ virtInflight = [ s \in KeyStrings |-> NoRec ]
    /\ inflightCalls = [ c \in Calls |-> NewInflightCall ]
    /\ db = [ isNil |-> TRUE, store |-> EmptyStore, v2vStore |-> EmptyStore ]
    /\ hist = [ c \in Calls |-> IdleHist ]
    /\ run = [ overlapped |-> TRUE, emptyTiers |-> TRUE ]
    /\ virtV2vMemoryCache = [ s \in KeyStrings |-> Nil ]
    /\ virtV2vInflight = [ s \in KeyStrings |-> NoRec ]
    /\ inspection = Unused
    /\ fstab = Unused
    /\ keyPair = Unused

\* OpenWithVirtV2V up to createLibvirtAuthFile: the URL is parsed and the
\* datacenter must not be empty.
OpenCheck ==
    /\ session.pc = "open"
    /\ session' =
         IF session.vcenterURL = "%malformed"
         THEN [ session EXCEPT !.pc = "held", !.err = << "url", 0 >> ]
         ELSE IF session.datacenter = ""
         THEN [ session EXCEPT !.pc = "held", !.err = << "datacenter", 0 >> ]
         ELSE [ session EXCEPT !.pc = "authfile" ]
    /\ UNCHANGED << inspectorVars, v2vVars, inspection, fstab, keyPair >>

\* createLibvirtAuthFile: the temporary file is created, written, closed
\* and its mode set; a failure after the creation removes the file.
createLibvirtAuthFile ==
    /\ session.pc = "authfile"
    /\ \E r \in { "createtemp", "write", "close", "chmod", "ok" } :
         IF r = "ok"
         THEN session' = [ session EXCEPT !.pc = "start", !.file = TRUE ]
         ELSE session' = [ session EXCEPT !.pc = "held", !.file = FALSE,
                                          !.err = << "authfile", 0 >> ]
    /\ UNCHANGED << inspectorVars, v2vVars, inspection, fstab, keyPair >>

\* Mutation of OpenStart: the auth file is not removed when cmd.Start()
\* fails.
OpenStart_LeakAuthFile ==
    /\ session.pc = "start"
    /\ \E ok \in (IF session.ctxDone THEN { FALSE } ELSE BOOLEAN) :
         IF ok
         THEN session' = [ session EXCEPT
                             !.pc = "held", !.proc = "running",
                             !.handle = Handle("started", "path") ]
         ELSE session' = [ session EXCEPT
                             !.pc = "held",
                             !.err = << "start", 0 >> ]
    /\ UNCHANGED << inspectorVars, v2vVars, inspection, fstab, keyPair >>

\* cmd.Start(): on a failure the auth file is removed and nil is returned;
\* otherwise the handle holds the command and the auth file.  With a
\* context that is already done the start fails.
OpenStart ==
    /\ session.pc = "start"
    /\ \E ok \in (IF session.ctxDone THEN { FALSE } ELSE BOOLEAN) :
         IF ok
         THEN session' = [ session EXCEPT
                             !.pc = "held", !.proc = "running",
                             !.handle = Handle("started", "path") ]
         ELSE session' = [ session EXCEPT
                             !.pc = "held", !.file = FALSE,
                             !.err = << "start", 0 >> ]
    /\ UNCHANGED << inspectorVars, v2vVars, inspection, fstab, keyPair >>

\* The context given to OpenWithVirtV2V is cancelled or its deadline
\* passes: exec.CommandContext kills the process it started.
SessionCtxDone ==
    /\ session.pc \in { "open", "authfile", "start", "held", "wait", "remove" }
    /\ ~session.ctxDone
    /\ session' = [ session EXCEPT
                      !.ctxDone = TRUE,
                      !.proc = IF @ = "running" THEN "exited" ELSE @ ]
    /\ UNCHANGED << inspectorVars, v2vVars, inspection, fstab, keyPair >>

\* virt-v2v-open terminates by itself.
ProcExit ==
    /\ session.pc \in { "held", "remove" }
    /\ session.proc = "running"
    /\ session' = [ session EXCEPT !.proc = "exited" ]
    /\ UNCHANGED << inspectorVars, v2vVars, inspection, fstab, keyPair >>

\* os.Process.Kill: terminates a running process; an error, ignored, for a
\* process that has finished.
Kill(proc) == IF proc = "running" THEN "exited" ELSE proc

\* os.Process.Wait: reaps a terminated process; an error, ignored, for a
\* process that was already waited for.
Wait(proc) == IF proc = "exited" THEN "reaped" ELSE proc

\* os.Remove: removes the file; an error, ignored, when it does not exist.
Remove(file) == FALSE

\* Mutation of CloseProcess: Close without the nil checks on the handle,
\* the command and the process.
CloseProcess_NoNilCheck ==
    /\ session.pc = "held"
    /\ session.closes < MaxCloses
    /\ session' =
         IF session.handle.isNil \/ session.handle.cmd # "started"
         THEN [ session EXCEPT !.pc = "panic" ]
         ELSE [ session EXCEPT
                  !.pc = "wait",
                  !.proc = Kill(@),
                  !.kills = IF session.proc = "running" THEN @ + 1 ELSE @ ]
    /\ UNCHANGED << inspectorVars, v2vVars, inspection, fstab, keyPair >>

\* V2VSession.Close up to Process.Wait: nothing on a nil handle; Kill when
\* the command and its process are there.
CloseProcess ==
    /\ session.pc = "held"
    /\ session.closes < MaxCloses
    /\ session' =
         IF session.handle.isNil
         THEN [ session EXCEPT
                  !.closes = @ + 1,
                  !.afterFirst = IF session.closes = 0
                                 THEN [ proc |-> session.proc,
                                        file |-> session.file ]
                                 ELSE @ ]
         ELSE IF session.handle.cmd = "started"
         THEN [ session EXCEPT
                  !.pc = "wait",
                  !.proc = Kill(@),
                  !.kills = IF session.proc = "running" THEN @ + 1 ELSE @ ]
         ELSE [ session EXCEPT !.pc = "remove" ]
    /\ UNCHANGED << inspectorVars, v2vVars, inspection, fstab, keyPair >>

\* V2VSession.Close in Process.Wait, which returns when the process has
\* terminated.
CloseProcessWait ==
    /\ session.pc = "wait"
    /\ session.proc # "running"
    /\ session' = [ session EXCEPT !.pc = "remove", !.proc = Wait(@) ]
    /\ UNCHANGED << inspectorVars, v2vVars, inspection, fstab, keyPair >>

\* The rest of V2VSession.Close: os.Remove of the auth file when the handle
\* names one, then the return.
CloseAuthFile ==
    /\ session.pc = "remove"
    /\ LET file == IF session.handle.authFile # "" THEN Remove(session.file)
                                                   ELSE session.file
       IN session' =
            [ session EXCEPT
                !.pc = "held",
                !.file = file,
                !.removes = IF session.file /\ ~file THEN @ + 1 ELSE @,
                !.closes = @ + 1,
                !.afterFirst = IF session.closes = 0
                               THEN [ proc |-> session.proc, file |-> file ]
                               ELSE @ ]
    /\ UNCHANGED << inspectorVars, v2vVars, inspection, fstab, keyPair >>

NextSession ==
    \/ OpenCheck
    \/ createLibvirtAuthFile
    \/ OpenStart
    \/ SessionCtxDone
    \/ ProcExit
    \/ CloseProcess
    \/ CloseProcessWait
    \/ CloseAuthFile

SpecSession == InitSession /\ [][NextSession]_vars

\* ------------------------------------------------ ValidateMigrateableFstab
\* One evaluation of ValidateMigrateableFstab.  Device names and mount
\* points are sequences of characters, so that strings.HasPrefix and the
\* concatenation of the message are computed as the code computes them.

\* Largest number of mountpoints of one operating system.
MaxMountpoints == 2

\* "/dev/disk/by-path/", the literal of the check.
ByPathPrefix == << "/", "d", "e", "v", "/", "d", "i", "s", "k", "/",
                   "b", "y", "-", "p", "a", "t", "h", "/" >>

\* The mountpoints of the inputs: two by-path devices, an ordinary device,
\* and a device that is the literal without its last character.
Mountpoint(dev, mp) == [ Device |-> dev, MountPoint |-> mp ]
MountpointValues ==
    { Mountpoint(ByPathPrefix \o << "p", "1" >>, << "/" >>),
      Mountpoint(ByPathPrefix \o << "p", "2" >>, << "/", "h" >>),
      Mountpoint(<< "/", "d", "e", "v", "/", "s", "d", "a" >>, << "/", "b" >>),
      Mountpoint(SubSeq(ByPathPrefix, 1, Len(ByPathPrefix) - 1), << "/", "x" >>) }

\* All sequences over S of length at most n.
SeqsUpTo(S, n) == UNION { [ 1..m -> S ] : m \in 0..n }

\* A VirtInspectorOS, of which only Mountpoints.Mountpoint matters here.
OperatingSystems ==
    { [ Mountpoints |-> [ Mountpoint |-> mps ] ] :
        mps \in SeqsUpTo(MountpointValues, MaxMountpoints) }

\* *types.VirtInspectorXML: nil, or a list of operating systems.
NilInspectionData == [ isNil |-> TRUE, Operatingsystems |-> << >> ]
InspectionDatas ==
    { NilInspectionData } \cup
    { [ isNil |-> FALSE, Operatingsystems |-> oses ] :
        oses \in SeqsUpTo(OperatingSystems, MaxOS) }

\* CheckResult
CheckResult(valid, message) == [ Valid |-> valid, Message |-> message ]
NoCheckResult == CheckResult(TRUE, << >>)

\* Mutation of HasPrefix: the string must be the prefix itself.
HasPrefix_Equal(s, prefix) == s = prefix

\* strings.HasPrefix
HasPrefix(s, prefix) ==
    /\ Len(s) >= Len(prefix)
    /\ SubSeq(s, 1, Len(prefix)) = prefix

\* The message of a by-path finding.
ByPathMessage(mountpoint) ==
    << "Fstab contains /dev/disk/by-path/ entries which are not migrateable. " >>
    \o << "Found device: " >> \o mountpoint.Device
    \o << " mounted at: " >> \o mountpoint.MountPoint

\* What a loop has found so far: nothing, or the result to return.
NotFound == [ found |-> FALSE, result |-> NoCheckResult ]
Found(mountpoint) ==
    [ found |-> TRUE, result |-> CheckResult(FALSE, ByPathMessage(mountpoint)) ]

\* Mutation of ScanMountpoints: the loop does not return at the first
\* by-path device but goes on and reports the last one.
RECURSIVE ScanMountpoints_Last(_, _)
ScanMountpoints_Last(mps, j) ==
    IF j > Len(mps) THEN NotFound
    ELSE LET rest == ScanMountpoints_Last(mps, j + 1) IN
         IF rest.found THEN rest
         ELSE IF HasPrefix(mps[j].Device, ByPathPrefix) THEN Found(mps[j])
         ELSE NotFound

\* The inner loop, from mountpoint j on: it returns at the first mountpoint
\* whose Device has the by-path prefix.
RECURSIVE ScanMountpoints(_, _)
ScanMountpoints(mps, j) ==
    IF j > Len(mps) THEN NotFound
    ELSE IF HasPrefix(mps[j].Device, ByPathPrefix) THEN Found(mps[j])
    ELSE ScanMountpoints(mps, j + 1)

\* The outer loop, from operating system i on.
RECURSIVE ScanOperatingsystems(_, _)
ScanOperatingsystems(oses, i) ==
    IF i > Len(oses) THEN NotFound
    ELSE LET r == ScanMountpoints(oses[i].Mountpoints.Mountpoint, 1) IN
         IF r.found THEN r ELSE ScanOperatingsystems(oses, i + 1)

ValidateMigrateableFstab(inspectionData) ==
    IF inspectionData.isNil
    THEN CheckResult(TRUE, << "No inspection data provided" >>)
    ELSE LET r == ScanOperatingsystems(inspectionData.Operatingsystems, 1) IN
         IF r.found THEN r.result
         ELSE CheckResult(TRUE,
                << "Fstab is migrateable - no /dev/disk/by-path/ entries found" >>)

InitFstab ==
    /\ fstab \in { [ pc |-> "call", inspectionData |-> data,
                     result |-> NoCheckResult ] : data \in InspectionDatas }
    /\ call = [ c \in Calls |-> IdleCall ]
    /\ virtMemoryCache = [ s \in KeyStrings |-> Nil ]
    /\ virtInflight = [ s \in KeyStrings |-> NoRec ]
    /\ inflightCalls = [ c \in Calls |-> NewInflightCall ]
    /\ db = [ isNil |-> TRUE, store |-> EmptyStore, v2vStore |-> EmptyStore ]
    /\ hist = [ c \in Calls |-> IdleHist ]
    /\ run = [ overlapped |-> TRUE, emptyTiers |-> TRUE ]
    /\ virtV2vMemoryCache = [ s \in KeyStrings |-> Nil ]
    /\ virtV2vInflight = [ s \in KeyStrings |-> NoRec ]
    /\ inspection = Unused
    /\ session = Unused
    /\ keyPair = Unused

\* The call of ValidateMigrateableFstab on the inspection data.
Validate ==
    /\ fstab.pc = "call"
    /\ fstab' = [ fstab EXCEPT
                    !.pc = "returned",
                    !.result = ValidateMigrateableFstab(fstab.inspectionData) ]
    /\ UNCHANGED << inspectorVars, v2vVars, inspection, session, keyPair >>

NextFstab == Validate

SpecFstab == InitFstab /\ [][NextFstab]_vars

\* FstabCheck.Run: what inspector.InspectWithVirt returned to it, inspection
\* data with a nil error or nil with an error, and the CheckResult it makes
\* of it.

\* err.Error() of an error of InspectWithVirt.
Error(err) == << err[1] >>

InitRun ==
    /\ fstab \in
         { [ pc |-> "run", inspectionData |-> data, err |-> NoErr,
             result |-> NoCheckResult ] :
             data \in InspectionDatas \ { NilInspectionData } }
         \cup
         { [ pc |-> "run", inspectionData |-> NilInspectionData,
             err |-> InspectError(kind, c), result |-> NoCheckResult ] :
             kind \in ErrKinds, c \in Calls }
    /\ call = [ c \in Calls |-> IdleCall ]
    /\ virtMemoryCache = [ s \in KeyStrings |-> Nil ]
    /\ virtInflight = [ s \in KeyStrings |-> NoRec ]
    /\ inflightCalls = [ c \in Calls |-> NewInflightCall ]
    /\ db = [ isNil |-> TRUE, store |-> EmptyStore, v2vStore |-> EmptyStore ]
    /\ hist = [ c \in Calls |-> IdleHist ]
    /\ run = [ overlapped |-> TRUE, emptyTiers |-> TRUE ]
    /\ virtV2vMemoryCache = [ s \in KeyStrings |-> Nil ]
    /\ virtV2vInflight = [ s \in KeyStrings |-> NoRec ]
    /\ inspection = Unused
    /\ session = Unused
    /\ keyPair = Unused

\* Mutation of Run: the error of InspectWithVirt is not looked at.
Run_IgnoreError ==
    /\ fstab.pc = "run"
    /\ fstab' = [ fstab EXCEPT
                    !.pc = "returned",
                    !.result = ValidateMigrateableFstab(fstab.inspectionData) ]
    /\ UNCHANGED << inspectorVars, v2vVars, inspection, session, keyPair >>

\* FstabCheck.Run after InspectWithVirt has returned: the failure result on
\* an error, otherwise the result of ValidateMigrateableFstab.
Run ==
    /\ fstab.pc = "run"
    /\ fstab' =
         [ fstab EXCEPT
             !.pc = "returned",
             !.result =
                 IF fstab.err # NoErr
                 THEN CheckResult(FALSE, << "Failed to run inspection: " >>
                                         \o Error(fstab.err))
                 ELSE ValidateMigrateableFstab(fstab.inspectionData) ]
    /\ UNCHANGED << inspectorVars, v2vVars, inspection, session, keyPair >>

NextRun == Run

SpecRun == InitRun /\ [][NextRun]_vars

\* ---------------------------------------------------------------- CacheKey
\* Two CacheKeys, their canonical strings and hashes, and what the second
\* finds in a volatile cache and an inflight table that hold an entry for
\* the first.

\* Longest VM or snapshot name.
MaxNameLen == 2

\* The characters of names: a letter and the separator of String().  Names
\* are not empty.
NameChars == { "a", ":" }
Names == UNION { [ 1..n -> NameChars ] : n \in 1..MaxNameLen }

\* CacheKey.Hash: the SHA-256 of String(), which is taken to have no
\* collisions.
Hash(k) == << "sha256", String(k) >>

InitKeyPair ==
    /\ keyPair \in { [ pc |-> "keys", k1 |-> CacheKey(vm1, snap1),
                       k2 |-> CacheKey(vm2, snap2),
                       sameEntry |-> FALSE, sameRecord |-> FALSE ] :
                       vm1 \in Names, snap1 \in Names,
                       vm2 \in Names, snap2 \in Names }
    /\ call = [ c \in Calls |-> IdleCall ]
    /\ virtMemoryCache = [ s \in KeyStrings |-> Nil ]
    /\ virtInflight = [ s \in KeyStrings |-> NoRec ]
    /\ inflightCalls = [ c \in Calls |-> NewInflightCall ]
    /\ db = [ isNil |-> TRUE, store |-> EmptyStore, v2vStore |-> EmptyStore ]
    /\ hist = [ c \in Calls |-> IdleHist ]
    /\ run = [ overlapped |-> TRUE, emptyTiers |-> TRUE ]
    /\ virtV2vMemoryCache = [ s \in KeyStrings |-> Nil ]
    /\ virtV2vInflight = [ s \in KeyStrings |-> NoRec ]
    /\ inspection = Unused
    /\ session = Unused
    /\ fstab = Unused

\* A value is set in an empty volatile cache under k1 and a record is
\* registered in an empty inflight table under k1; then k2 is looked up in
\* both.
Address ==
    /\ keyPair.pc = "keys"
    /\ LET strings == { String(keyPair.k1), String(keyPair.k2) }
           cache == set([ s \in strings |-> Nil ], keyPair.k1, StoredValue)
           calls == [ [ s \in strings |-> NoRec ]
                        EXCEPT ![String(keyPair.k1)] = 1 ]
       IN keyPair' =
            [ keyPair EXCEPT
                !.pc = "addressed",
                !.sameEntry = (get(cache, keyPair.k2) # Nil),
                !.sameRecord = exists(calls, String(keyPair.k2)) ]
    /\ UNCHANGED << inspectorVars, v2vVars, inspection, session, fstab >>

NextKeyPair == Address

SpecKeyPair == InitKeyPair /\ [][NextKeyPair]_vars

\* ------------------------------------------------------------------------
\* The full-miss path end to end: one caller's InspectWithVirt with the
\* stages of VirtInspector.Inspect in place of the outcome set Inspect(c).

\* The caller of this path.
MissCallers == { c \in Calls : \A d \in Calls : c <= d }

\* The stage of Inspect that failed, as the coordinator's history names it.
FailedStage(err) ==
    IF err[1] \in { "open", "ready" } THEN "session"
    ELSE IF err[1] = "tool" THEN "tool"
    ELSE "parse"

InitMiss ==
    /\ call = [ c \in Calls |-> IdleCall ]
    /\ virtMemoryCache = [ s \in KeyStrings |-> Nil ]
    /\ virtInflight = [ s \in KeyStrings |-> NoRec ]
    /\ inflightCalls = [ c \in Calls |-> NewInflightCall ]
    /\ db \in DBs
    /\ hist = [ c \in Calls |-> IdleHist ]
    /\ run = [ overlapped |-> TRUE,
               emptyTiers |-> (db.isNil \/ db.store = EmptyStore) ]
    /\ virtV2vMemoryCache = [ s \in KeyStrings |-> Nil ]
    /\ virtV2vInflight = [ s \in KeyStrings |-> NoRec ]
    /\ inspection = Unused
    /\ session = Unused
    /\ fstab = Unused
    /\ keyPair = Unused

\* The work function calls p.virtInspector.Inspect with the ctx of the call
\* that runs it, the credentials' vCenter URL (one of urls), the datacenter
\* (one of dcs) and diskInfo.
InspectWith(c, urls, dcs) ==
    /\ call[c].pc = "inspect"
    /\ call' = [ call EXCEPT ![c].pc = "inspecting" ]
    /\ hist' = [ hist EXCEPT ![c].insp = "running" ]
    /\ inspection' \in { [ NewInspection(UseVirtV2VOpen, url, dc, d)
                              EXCEPT !.ctxDone = call[c].ctxDone ] :
                            url \in urls, dc \in dcs, d \in DiskInfos }
    /\ UNCHANGED << virtMemoryCache, virtInflight, inflightCalls, db, run,
                    v2vVars, session, fstab, keyPair >>

CallInspect(c) == InspectWith(c, VCenterURLs, Datacenters)

\* Mutation of ReturnInspect: the work function goes on to the cache writes
\* as soon as the output is there, before Inspect has returned.
ReturnInspect_BeforeReturn(c) ==
    /\ call[c].pc = "inspecting"
    /\ inspection.pc \in { "parse", "returned" }
    /\ LET r == IF inspection.pc = "parse"
                THEN [ val |-> parseInspectionXML(inspection.output).val,
                       err |-> IF parseInspectionXML(inspection.output).err
                                  = NoErr
                               THEN NoErr ELSE << "parse", 0 >> ]
                ELSE [ val |-> inspection.val, err |-> inspection.err ] IN
       /\ call' = [ call EXCEPT
                      ![c].pc = IF r.err # NoErr THEN "fnret" ELSE "memset",
                      ![c].val = r.val,
                      ![c].err = IF r.err = NoErr THEN NoErr
                                 ELSE InspectError(FailedStage(r.err), c) ]
       /\ hist' = [ hist EXCEPT
                      ![c].insp = IF r.err = NoErr THEN "ok"
                                  ELSE FailedStage(r.err) ]
    /\ UNCHANGED << virtMemoryCache, virtInflight, inflightCalls, db, run,
                    v2vVars, otherVars >>

\* Inspect has returned, its deferred sessionCloser has run:
\* `if err != nil { return nil, err }`, otherwise on to the cache writes.
ReturnInspect(c) ==
    /\ call[c].pc = "inspecting"
    /\ inspection.pc = "returned"
    /\ call' = [ call EXCEPT
                   ![c].pc = IF inspection.err # NoErr THEN "fnret"
                             ELSE "memset",
                   ![c].val = inspection.val,
                   ![c].err = IF inspection.err = NoErr THEN NoErr
                              ELSE InspectError(FailedStage(inspection.err),
                                                c) ]
    /\ hist' = [ hist EXCEPT
                   ![c].insp = IF inspection.err = NoErr THEN "ok"
                               ELSE FailedStage(inspection.err) ]
    /\ UNCHANGED << virtMemoryCache, virtInflight, inflightCalls, db, run,
                    v2vVars, otherVars >>

NextMiss ==
    \/ \E c \in MissCallers :
         \/ \E k \in Keys : InspectWithVirt(c, k)
         \/ DoLookup(c)
         \/ FnMemCheck2(c)
         \/ FnDbGet(c)
         \/ FnMemSetFromDb(c)
         \/ CallInspect(c)
         \/ ReturnInspect(c)
         \/ FnMemSet(c)
         \/ FnDbSet(c)
         \/ DoDone(c)
         \/ DoDelete(c)
    \/ CtxCancel
    \/ EndpointUp
    \/ InspectEnter
    \/ InspectOpen
    \/ InspectWaitForReady
    \/ InspectRun
    \/ InspectParse

SpecMiss == InitMiss /\ [][NextMiss]_vars

\* ------------------------------------------------------------------------
\* inflightTracker.do under a fair scheduler.  The Inspector has no DB, so
\* the work function is the double-check, the inspection and the cache
\* write; every goroutine that can take a step takes one in the end, and
\* an inspection that was started returns.

InitLive ==
    /\ Init
    /\ db.isNil

\* The next step of call c from the entry of do to its return.
LiveStep(c) ==
    \/ DoLookup(c)
    \/ DoWait(c)
    \/ FnMemCheck2(c)
    \/ InspectBegin(c)
    \/ InspectEnd(c)
    \/ FnMemSet(c)
    \/ DoDone(c)
    \/ DoDelete(c)

NextLive ==
    \E c \in Calls :
        \/ \E k \in { PreloadedKey, CacheKey(<<"a", ":">>, <<"b">>) } :
             InspectWithVirt(c, k)
        \/ LiveStep(c)

SpecLive ==
    /\ InitLive
    /\ [][NextLive]_vars
    /\ \A c \in Calls : WF_vars(LiveStep(c))

\* ------------------------------------------------------------------------
\* Callers of one key with their contexts: InspectWithVirt of an Inspector
\* without DB, the stages of VirtInspector.Inspect inside the executor's
\* work function, and the cancellation of each caller's ctx.

\* The callers of the key pass the same datacenter, and the Inspector has
\* one vCenter URL.
CallInspectShared(c) == InspectWith(c, { "https://vc/sdk" }, { "dc" })

InitShared ==
    /\ InitMiss
    /\ db.isNil

\* The ctx that call c passed to InspectWithVirt is cancelled.  It is the
\* parent of the inspectCtx of the inspection that c's work function runs;
\* no other call's work function has it.
Cancel(c) ==
    /\ call[c].pc # "done"
    /\ ~call[c].ctxDone
    /\ call' = [ call EXCEPT ![c].ctxDone = TRUE ]
    /\ inspection' =
         IF call[c].pc = "inspecting"
            /\ inspection.pc \in { "start", "open", "ready", "sleep", "run",
                                   "parse" }
         THEN [ inspection EXCEPT !.ctxDone = TRUE ]
         ELSE inspection
    /\ UNCHANGED << virtMemoryCache, virtInflight, inflightCalls, db, hist,
                    run, v2vVars, session, fstab, keyPair >>

NextShared ==
    \/ \E c \in Calls :
         \/ InspectWithVirt(c, PreloadedKey)
         \/ Cancel(c)
         \/ DoLookup(c)
         \/ DoWait(c)
         \/ FnMemCheck2(c)
         \/ CallInspectShared(c)
         \/ ReturnInspect(c)
         \/ FnMemSet(c)
         \/ DoDone(c)
         \/ DoDelete(c)
    \/ CtxCancel
    \/ EndpointUp
    \/ InspectEnter
    \/ InspectOpen
    \/ InspectWaitForReady
    \/ InspectRun
    \/ InspectParse

SpecShared == InitShared /\ [][NextShared]_vars

\* ------------------------------------------------------------------------
\* Several FstabCheck.Run calls for one VM and snapshot, each a goroutine.
\* fstab.runs is the state of each Run, fstab.inspectors the Inspectors that
\* NewInspector has made, by the Run whose call made them,
\* fstab.inflightCalls the inflightCall that each Run makes when it
\* registers in a table (WaitGroup counter and result); db is the DB that
\* every Run has in params.DB.

Runs == Calls

\* The key of the VM and snapshot that the Runs are about.
RunKey == PreloadedKey

\* What virt-inspector finds in the VM, and what a DB may hold for it from
\* before.
InspectedData ==
    [ isNil |-> FALSE,
      Operatingsystems |->
        << [ Mountpoints |-> [ Mountpoint |->
               << Mountpoint(ByPathPrefix \o << "p", "1" >>, << "/" >>) >> ] ] >> ]
StoredData ==
    [ isNil |-> FALSE,
      Operatingsystems |->
        << [ Mountpoints |-> [ Mountpoint |->
               << Mountpoint(<< "/", "d", "e", "v", "/", "s", "d", "a" >>,
                             << "/", "b" >>) >> ] ] >> ]

\* An Inspector: its memory cache and the table of its inflight tracker.
\* NoInspector is a place where none has been made.
EmptyInspector ==
    [ allocated |-> TRUE,
      virtMemoryCache |-> [ s \in KeyStrings |-> NilInspectionData ],
      virtInflight |-> [ s \in KeyStrings |-> NoRec ] ]
NoInspector == [ EmptyInspector EXCEPT !.allocated = FALSE ]

\* Mutation of NewInspector: one Inspector is made by the first call and
\* every later call returns it.
NewInspector_Singleton(heap, r) ==
    LET i == CHOOSE j \in Runs : \A q \in Runs : j <= q IN
    [ heap |-> IF heap[i].allocated THEN heap
               ELSE [ heap EXCEPT ![i] = EmptyInspector ],
      ref |-> i ]

\* NewInspector called by Run r: a new Inspector with an empty memory cache
\* and an empty inflight table, and the reference to it.
NewInspector(heap, r) ==
    [ heap |-> [ heap EXCEPT ![r] = EmptyInspector ], ref |-> r ]

\* role, inspected, source, startedAfter: history of the Run (how
\* InspectWithVirt served it, whether it ran the inspection, where its data
\* came from, whether it began after another Run had returned).
NewRun ==
    [ pc |-> "new", inspector |-> NoRec, val |-> NilInspectionData,
      err |-> NoErr, result |-> NoCheckResult,
      role |-> "none", inspected |-> FALSE, source |-> "none",
      startedAfter |-> FALSE ]

DBsRuns ==
    { [ isNil |-> TRUE, store |-> [ k \in Keys |-> NilInspectionData ],
        v2vStore |-> EmptyStore ],
      [ isNil |-> FALSE, store |-> [ k \in Keys |-> NilInspectionData ],
        v2vStore |-> EmptyStore ],
      [ isNil |-> FALSE,
        store |-> [ k \in Keys |-> IF k = RunKey THEN StoredData
                                   ELSE NilInspectionData ],
        v2vStore |-> EmptyStore ] }

InitRuns ==
    /\ fstab = [ runs |-> [ r \in Runs |-> NewRun ],
                 inspectors |-> [ i \in Runs |-> NoInspector ],
                 inflightCalls |->
                   [ r \in Runs |-> [ wg |-> 0, val |-> NilInspectionData,
                                      err |-> NoErr ] ] ]
    /\ db \in DBsRuns
    /\ call = [ c \in Calls |-> IdleCall ]
    /\ virtMemoryCache = [ s \in KeyStrings |-> Nil ]
    /\ virtInflight = [ s \in KeyStrings |-> NoRec ]
    /\ inflightCalls = [ c \in Calls |-> NewInflightCall ]
    /\ hist = [ c \in Calls |-> IdleHist ]
    /\ run = [ overlapped |-> TRUE, emptyTiers |-> TRUE ]
    /\ virtV2vMemoryCache = [ s \in KeyStrings |-> Nil ]
    /\ virtV2vInflight = [ s \in KeyStrings |-> NoRec ]
    /\ inspection = Unused
    /\ session = Unused
    /\ keyPair = Unused

runsFrame == << call, virtMemoryCache, virtInflight, inflightCalls, hist, run,
                v2vVars, inspection, session, keyPair >>

\* The Inspector that Run r uses.
InspectorOf(r) == fstab.inspectors[fstab.runs[r].inspector]

\* Run begins: persistent.NewInspector with params.DB.
RunNewInspector(r) ==
    /\ fstab.runs[r].pc = "new"
    /\ LET a == NewInspector(fstab.inspectors, r) IN
       fstab' = [ fstab EXCEPT
                    !.inspectors = a.heap,
                    !.runs[r].pc = "first",
                    !.runs[r].inspector = a.ref,
                    !.runs[r].startedAfter =
                        \E q \in Runs : fstab.runs[q].pc = "returned" ]
    /\ UNCHANGED << db, runsFrame >>

\* InspectWithVirt, "Check memory cache first".
RunFirstCheck(r) ==
    /\ fstab.runs[r].pc = "first"
    /\ LET cached == get(InspectorOf(r).virtMemoryCache, RunKey) IN
       fstab' = IF ~cached.isNil
                THEN [ fstab EXCEPT !.runs[r].pc = "validate",
                                    !.runs[r].val = cached,
                                    !.runs[r].role = "hit",
                                    !.runs[r].source = "memory" ]
                ELSE [ fstab EXCEPT !.runs[r].pc = "lookup" ]
    /\ UNCHANGED << db, runsFrame >>

\* inflightTracker.do, the region under t.mu: wait on the record of the
\* key, or make a record with wg.Add(1) and register it.  A Run that finds
\* a record waits for it.
RunDoLookup(r) ==
    /\ fstab.runs[r].pc = "lookup"
    /\ LET i == fstab.runs[r].inspector
           keyStr == String(RunKey) IN
       fstab' = IF exists(InspectorOf(r).virtInflight, keyStr)
                THEN [ fstab EXCEPT !.runs[r].pc = "wait",
                                    !.runs[r].role = "waiter" ]
                ELSE [ fstab EXCEPT
                         !.runs[r].pc = "check2",
                         !.runs[r].role = "executor",
                         !.inflightCalls[r] = [ wg |-> 1,
                                                val |-> NilInspectionData,
                                                err |-> NoErr ],
                         !.inspectors[i].virtInflight[keyStr] = r ]
    /\ UNCHANGED << db, runsFrame >>

\* The work function, "Double-check memory cache".
RunCheck2(r) ==
    /\ fstab.runs[r].pc = "check2"
    /\ LET cached == get(InspectorOf(r).virtMemoryCache, RunKey) IN
       fstab' = IF ~cached.isNil
                THEN [ fstab EXCEPT !.runs[r].pc = "fnret",
                                    !.runs[r].val = cached,
                                    !.runs[r].source = "memory" ]
                ELSE [ fstab EXCEPT
                         !.runs[r].pc = IF db.isNil THEN "inspect"
                                                    ELSE "dbget" ]
    /\ UNCHANGED << db, runsFrame >>

\* The work function, "Check DB if provided": p.db.GetVirtInspectorXML.
\* A hit goes on to the memory cache; a miss and an error go on to the
\* inspection.
RunDbGet(r) ==
    /\ fstab.runs[r].pc = "dbget"
    /\ \E failed \in BOOLEAN :
         LET cached == db.store[RunKey] IN
         fstab' = IF ~failed /\ ~cached.isNil
                  THEN [ fstab EXCEPT !.runs[r].pc = "dbhit",
                                      !.runs[r].val = cached,
                                      !.runs[r].source = "db" ]
                  ELSE [ fstab EXCEPT !.runs[r].pc = "inspect" ]
    /\ UNCHANGED << db, runsFrame >>

\* The work function after a DB hit, "Store in memory cache for faster
\* subsequent access", and its return of the value.
RunMemSetFromDb(r) ==
    /\ fstab.runs[r].pc = "dbhit"
    /\ LET i == fstab.runs[r].inspector IN
       fstab' = [ fstab EXCEPT
                    !.runs[r].pc = "fnret",
                    !.inspectors[i].virtMemoryCache =
                        set(@, RunKey, fstab.runs[r].val) ]
    /\ UNCHANGED << db, runsFrame >>

\* The work function calls p.virtInspector.Inspect: data, or an error.
RunInspect(r) ==
    /\ fstab.runs[r].pc = "inspect"
    /\ \/ fstab' = [ fstab EXCEPT !.runs[r].pc = "memset",
                                  !.runs[r].val = InspectedData,
                                  !.runs[r].inspected = TRUE,
                                  !.runs[r].source = "inspect" ]
       \/ \E kind \in ErrKinds :
            fstab' = [ fstab EXCEPT !.runs[r].pc = "fnret",
                                    !.runs[r].err = InspectError(kind, r),
                                    !.runs[r].inspected = TRUE ]
    /\ UNCHANGED << db, runsFrame >>

\* The work function, "Store in memory cache".
RunMemSet(r) ==
    /\ fstab.runs[r].pc = "memset"
    /\ LET i == fstab.runs[r].inspector IN
       fstab' = [ fstab EXCEPT
                    !.runs[r].pc = IF db.isNil THEN "fnret" ELSE "dbset",
                    !.inspectors[i].virtMemoryCache =
                        set(@, RunKey, fstab.runs[r].val) ]
    /\ UNCHANGED << db, runsFrame >>

\* The work function, "Store in DB if provided": an error is logged only.
RunDbSet(r) ==
    /\ fstab.runs[r].pc = "dbset"
    /\ \E failed \in BOOLEAN :
         db' = IF failed THEN db
               ELSE [ db EXCEPT !.store[RunKey] = fstab.runs[r].val ]
    /\ fstab' = [ fstab EXCEPT !.runs[r].pc = "fnret" ]
    /\ UNCHANGED runsFrame

\* inflightTracker.do after fn(): the result is stored in the record and
\* the completion is signalled with wg.Done().  The record is still in the
\* table.
RunDoDone(r) ==
    /\ fstab.runs[r].pc = "fnret"
    /\ fstab' = [ fstab EXCEPT
                    !.runs[r].pc = "dereg",
                    !.inflightCalls[r] = [ wg |-> 0,
                                           val |-> fstab.runs[r].val,
                                           err |-> fstab.runs[r].err ] ]
    /\ UNCHANGED << db, runsFrame >>

\* inflightTracker.do, "Remove from inflight map" under t.mu, and the
\* return of the record's result to InspectWithVirt and to Run.
RunDoDelete(r) ==
    /\ fstab.runs[r].pc = "dereg"
    /\ LET i == fstab.runs[r].inspector IN
       fstab' = [ fstab EXCEPT
                    !.runs[r].pc = "validate",
                    !.runs[r].val = fstab.inflightCalls[r].val,
                    !.runs[r].err = fstab.inflightCalls[r].err,
                    !.inspectors[i].virtInflight[String(RunKey)] = NoRec ]
    /\ UNCHANGED << db, runsFrame >>

\* Run after InspectWithVirt: the failure result, or the result of
\* ValidateMigrateableFstab.
RunReturn(r) ==
    /\ fstab.runs[r].pc = "validate"
    /\ fstab' =
         [ fstab EXCEPT
             !.runs[r].pc = "returned",
             !.runs[r].result =
                 IF fstab.runs[r].err # NoErr
                 THEN CheckResult(FALSE, << "Failed to run inspection: " >>
                                         \o Error(fstab.runs[r].err))
                 ELSE ValidateMigrateableFstab(fstab.runs[r].val) ]
    /\ UNCHANGED << db, runsFrame >>

NextRuns ==
    \E r \in Runs :
        \/ RunNewInspector(r)
        \/ RunFirstCheck(r)
        \/ RunDoLookup(r)
        \/ RunCheck2(r)
        \/ RunDbGet(r)
        \/ RunMemSetFromDb(r)
        \/ RunInspect(r)
        \/ RunMemSet(r)
        \/ RunDbSet(r)
        \/ RunDoDone(r)
        \/ RunDoDelete(r)
        \/ RunReturn(r)

SpecRuns == InitRuns /\ [][NextRuns]_vars

\* ------------------------------------------------------------ properties
\* The work function of call c is running (between registration and the
\* return of fn).
InFn(c) == call[c].pc \in { "check2", "dbget", "dbhit", "inspect",
                            "inspecting", "memset", "dbset" }

Returned(c) == call[c].pc = "done"

\* The calls whose work function ran the external inspection, and those
\* whose inspection succeeded.
Ran == { c \in Calls : hist[c].insp # "none" }
RanOk == { c \in Calls : hist[c].insp = "ok" }

SameResult(c, d) == call[c].val = call[d].val /\ call[c].err = call[d].err

\* What the inspection of call c returned, by its outcome.
InspectionResult(c) ==
    /\ hist[c].insp = "ok" => call[c].val = InspectValue(c) /\ call[c].err = NoErr
    /\ hist[c].insp \in ErrKinds =>
           call[c].val = Nil /\ call[c].err = InspectError(hist[c].insp, c)

\* N calls with one key, all begun before any returned, on an Inspector
\* whose tiers began empty, and all of them returned.
C1_Scenario ==
    /\ run.emptyTiers
    /\ run.overlapped
    /\ \A c \in Calls : Returned(c)
    /\ \A c, d \in Calls : call[c].key = call[d].key

\* C1 as stated: for N concurrent calls with the same key from empty tiers,
\* the external inspection executes exactly once and all N calls return the
\* same value or the same error.
C1_ExactlyOnce ==
    C1_Scenario =>
        /\ Cardinality(Ran) = 1
        /\ \A c, d \in Calls : SameResult(c, d)

\* C1 amended: for N concurrent calls with the same key from empty tiers,
\* the external inspection executes at least once and at most one execution
\* succeeds (it executes again only after a failed execution); all calls
\* that return without error return the same value, every waiter returns
\* the result of the executor of its record, and when the inspection
\* executed exactly once all N calls return the same value or error.
C1_AtMostOneSuccess ==
    C1_Scenario =>
        /\ Cardinality(Ran) >= 1
        /\ Cardinality(RanOk) <= 1
        /\ \A c, d \in Calls :
               (call[c].err = NoErr /\ call[d].err = NoErr)
                   => call[c].val = call[d].val
        /\ \A c \in Calls : call[c].isWaiter => SameResult(c, call[c].rec)
        /\ Cardinality(Ran) = 1 => \A c, d \in Calls : SameResult(c, d)

\* C1 witness: the scenario with a caller that waited on the other's record.
C1_Witness == C1_Scenario /\ \E c \in Calls : call[c].isWaiter

\* C2: at most one work function is executing per key string.
C2_OneWorkFnPerKey ==
    \A c, d \in Calls :
        (c # d /\ InFn(c) /\ InFn(d))
            => String(call[c].key) # String(call[d].key)

\* C2 witness: a second caller for the key arrived while the work function
\* of the first is inside the inspection.
C2_Witness ==
    \E c, d \in Calls :
        /\ c # d
        /\ call[c].pc = "inspecting"
        /\ call[d].pc = "wait"
        /\ String(call[c].key) = String(call[d].key)

\* C3 (results): a caller that found a record ran nothing of the work
\* function and, once returned, the record's signal has fired and the caller
\* holds the record's (val, err) with isWaiter = true; a caller that found
\* none holds, once returned, what its own work function returned with
\* isWaiter = false.
C3_Results ==
    \A c \in Calls :
        /\ hist[c].role = "waiter" =>
               /\ call[c].rec \in Calls \ { c }
               /\ hist[c].insp = "none" /\ hist[c].dbGet = "none"
               /\ hist[c].dbSet = "none" /\ ~hist[c].wrote
               /\ Returned(c) =>
                      /\ inflightCalls[call[c].rec].wg = 0
                      /\ call[c].val = inflightCalls[call[c].rec].val
                      /\ call[c].err = inflightCalls[call[c].rec].err
                      /\ call[c].isWaiter
        /\ (hist[c].role = "executor" /\ Returned(c)) =>
               /\ ~call[c].isWaiter
               /\ call[c].rec = c
               /\ InspectionResult(c)
               /\ hist[c].insp = "none" =>
                      /\ call[c].err = NoErr
                      /\ call[c].val = virtMemoryCache[String(call[c].key)]

\* C3 (lookup): the step that leaves the lookup makes the caller a waiter on
\* the record of the key exactly when the table holds one, and otherwise
\* registers the caller's own record and starts the work function.
C3_Lookup ==
    \A c \in Calls :
        (call[c].pc = "lookup" /\ call'[c].pc # "lookup") =>
            IF virtInflight[String(call[c].key)] # NoRec
            THEN /\ call'[c].pc = "wait"
                 /\ call'[c].rec = virtInflight[String(call[c].key)]
                 /\ virtInflight' = virtInflight
            ELSE /\ call'[c].pc = "check2"
                 /\ virtInflight'[String(call[c].key)] = c
                 /\ inflightCalls'[c].wg = 1

\* C3: inflightTracker.do serves a caller from the record it found, after
\* that record's completion signal, and otherwise runs fn on the caller.
C3_DoContract == []C3_Results /\ [][C3_Lookup]_vars

\* C3 witness: a waiter and the executor it waited on have both returned.
C3_Witness ==
    \E c \in Calls :
        /\ hist[c].role = "waiter" /\ Returned(c)
        /\ Returned(call[c].rec)

\* C4: a waiter returns the pair its executor returns, also when that is an
\* error, and no work function runs on the waiter's behalf.
C4_WaiterGetsExecutorResult ==
    \A c \in Calls :
        (hist[c].role = "waiter" /\ Returned(c)) =>
            /\ hist[c].insp = "none"
            /\ hist[call[c].rec].role = "executor"
            /\ Returned(call[c].rec) => SameResult(c, call[c].rec)
            /\ hist[call[c].rec].insp \in ErrKinds =>
                   call[c].err = InspectError(hist[call[c].rec].insp, call[c].rec)

\* C4 witness: a waiter returned the error of its executor's failed
\* inspection.
C4_Witness ==
    \E c \in Calls :
        /\ hist[c].role = "waiter" /\ Returned(c)
        /\ Returned(call[c].rec)
        /\ hist[call[c].rec].insp \in ErrKinds
        /\ call[c].err # NoErr

\* C5 as stated: a record in progress is always found in the table, and no
\* lookup finds a record whose completion signal has already fired.
C5_AtomicRegistration ==
    /\ \A c \in Calls : InFn(c) => virtInflight[String(call[c].key)] = c
    /\ \A c \in Calls : ~hist[c].foundStale

\* C6 (state): while a call is about to run or is running the external
\* inspection for K, the volatile tier holds nothing for K.
C6_NoInspectionOnceCached ==
    \A c \in Calls :
        call[c].pc \in { "inspect", "inspecting" }
            => virtMemoryCache[String(call[c].key)] = Nil

\* C6 (steps): no inspection starts for a key the volatile tier holds, and
\* a call that begins when the tier holds a value returns that value.
C6_Steps ==
    \A c \in Calls :
        /\ (call[c].pc # "inspecting" /\ call'[c].pc = "inspecting")
               => virtMemoryCache[String(call[c].key)] = Nil
        /\ (call[c].pc = "idle" /\ call'[c].pc # "idle"
              /\ virtMemoryCache[String(call'[c].key)] # Nil)
               => /\ call'[c].pc = "done"
                  /\ call'[c].val = virtMemoryCache[String(call'[c].key)]
                  /\ call'[c].err = NoErr
                  /\ hist'[c].insp = "none"

\* C6: once the volatile tier holds a value for K no inspection for K
\* starts, and later calls return the volatile value.
C6_VolatileStopsInspection ==
    []C6_NoInspectionOnceCached /\ [][C6_Steps]_vars

\* C6 witness: an executor that began before the tier was populated found
\* the value in its double-check and ran no inspection, while another
\* call's inspection had succeeded.
C6_Witness ==
    \E c, d \in Calls :
        /\ hist[c].role = "executor" /\ Returned(c)
        /\ hist[c].insp = "none" /\ hist[c].dbGet = "none"
        /\ hist[d].insp = "ok"
        /\ call[c].val = InspectValue(d)

\* C7: a call whose durable read returned a value returns exactly that
\* value with no error, runs no inspection, and the volatile tier holds the
\* value when it has returned.
C7_DurableFallback ==
    \A c \in Calls :
        hist[c].dbGet = "hit" =>
            /\ hist[c].got # Nil
            /\ hist[c].insp = "none"
            /\ ~db.isNil
            /\ Returned(c) =>
                   /\ call[c].val = hist[c].got
                   /\ call[c].err = NoErr
                   /\ virtMemoryCache[String(call[c].key)] = hist[c].got

\* C7 witness: a call served from the durable tier has returned.
C7_Witness == \E c \in Calls : hist[c].dbGet = "hit" /\ Returned(c)

\* C8: a call whose inspection succeeded and whose durable write failed
\* returns the new value with no error, and the volatile tier holds it.
C8_DurableWriteNonFatal ==
    \A c \in Calls :
        (hist[c].dbSet = "err" /\ Returned(c)) =>
            /\ hist[c].insp = "ok"
            /\ call[c].val = InspectValue(c)
            /\ call[c].err = NoErr
            /\ virtMemoryCache[String(call[c].key)] = InspectValue(c)

\* C8 witness: a call whose durable write failed has returned.
C8_Witness == \E c \in Calls : hist[c].dbSet = "err" /\ Returned(c)

\* C9: after a durable read error the executor goes on to the external
\* inspection, and what the call returns is the inspection's result alone.
C9_ReadErrorIsMiss ==
    \A c \in Calls :
        hist[c].dbGet = "err" =>
            /\ call[c].pc = "inspect" \/ hist[c].insp # "none"
            /\ Returned(c) =>
                   /\ hist[c].insp \in { "ok" } \cup ErrKinds
                   /\ InspectionResult(c)

\* C9 witness: a call whose durable read failed returned its inspection's
\* value.
C9_Witness ==
    \E c \in Calls :
        hist[c].dbGet = "err" /\ Returned(c) /\ hist[c].insp = "ok"

\* C10 (state): a call whose inspection failed wrote neither tier, returns
\* the inspection's error, and leaves the volatile tier empty for its key.
C10_FailedCallWroteNothing ==
    \A c \in Calls :
        hist[c].insp \in ErrKinds =>
            /\ ~hist[c].wrote
            /\ hist[c].dbSet = "none"
            /\ call[c].pc \in { "fnret", "dereg" }
                   => virtMemoryCache[String(call[c].key)] = Nil
            /\ Returned(c) => InspectionResult(c)

\* C10 (steps): no step of a call whose inspection failed changes a tier.
C10_Steps ==
    \A c \in Calls :
        (call'[c] # call[c] /\ hist'[c].insp \in ErrKinds)
            => (virtMemoryCache' = virtMemoryCache /\ db' = db)

\* C10: failures are never cached.
C10_FailuresNotCached == []C10_FailedCallWroteNothing /\ [][C10_Steps]_vars

\* C10 witness: with a DB present, a call whose inspection failed returned.
C10_Witness ==
    \E c \in Calls :
        hist[c].insp \in ErrKinds /\ Returned(c) /\ ~db.isNil

\* ------------------------------------------ properties of VirtInspector.Inspect
\* Inspect returned the error of the open or of the readiness wait of disk i.
SessionFailure(i) ==
    /\ inspection.pc = "returned"
    /\ inspection.err \in { << "open", i >>, << "ready", i >> }

\* C11: rollback on partial failure.  In per-disk mode, when Inspect has
\* returned the error of the open or of the readiness wait of disk i, every
\* session opened for a disk before i has been closed, no session for a disk
\* after i was opened, and the inspection tool was not run.
C11_RollbackOnPartialFailure ==
    \A i \in Disks :
        SessionFailure(i) =>
            /\ \A j \in Disks :
                 /\ (j < i /\ inspection.sessions[j].opened)
                      => inspection.sessions[j].closes > 0
                 /\ j > i => ~inspection.sessions[j].opened
            /\ inspection.toolRuns = 0

\* The open of the second disk failed after the first disk's session had
\* been opened and confirmed ready, and that session was closed.
C11_Witness ==
    /\ SessionFailure(2)
    /\ inspection.err = << "open", 2 >>
    /\ inspection.sessions[1].opened
    /\ inspection.sessions[1].closes > 0

\* C12: every session whose open returned a handle is closed exactly once
\* by the time Inspect returns, whatever the exit path; no session is ever
\* closed twice and nothing that was not opened is closed.
C12_ClosedExactlyOnce ==
    \A j \in Disks :
        /\ inspection.sessions[j].closes <= 1
        /\ ~inspection.sessions[j].opened => inspection.sessions[j].closes = 0
        /\ (inspection.pc = "returned" /\ inspection.sessions[j].opened)
             => inspection.sessions[j].closes = 1

\* The readiness wait of the second disk's session failed after the
\* context was cancelled, and both sessions were closed once.
C12_Witness ==
    /\ inspection.pc = "returned"
    /\ inspection.err = << "ready", 2 >>
    /\ inspection.ctxDone
    /\ \A j \in 1..2 : /\ inspection.sessions[j].opened
                       /\ inspection.sessions[j].closes = 1

\* C19: sessions come up strictly in disk order.  A session for disk j + 1
\* is opened only when the session for disk j has been opened and its
\* WaitForReady has returned nil, and the inspection tool is run only when
\* the session of every disk has been confirmed ready.
C19_SequentialBringUp ==
    /\ \A j \in Disks :
         (j > 1 /\ inspection.sessions[j].opened)
            => /\ inspection.sessions[j - 1].opened
               /\ inspection.sessions[j - 1].ready
    /\ inspection.toolRuns > 0
         => \A j \in 1..Len(inspection.diskInfo.BaseDiskPaths) :
              /\ inspection.sessions[j].opened
              /\ inspection.sessions[j].ready

\* The tool ran on a snapshot of two disks.
C19_Witness ==
    /\ inspection.toolRuns > 0
    /\ Len(inspection.diskInfo.BaseDiskPaths) >= 2
    /\ inspection.toolArgs = << NBDURL(1), NBDURL(2) >>

\* C20: the single-session strategy keeps the open / wait-ready / cleanup
\* contract.  When the inspection tool is run, the readiness of the one
\* session has been confirmed and its endpoint accepts connections; and by
\* the time Inspect returns, an opened session has been closed.
C20_SingleSessionContract ==
    /\ (inspection.UseVirtV2VOpen /\ inspection.toolRuns > 0)
         => /\ inspection.sessions[1].ready
            /\ inspection.sessions[1].listening
    /\ (inspection.pc = "returned" /\ inspection.sessions[1].opened)
         => inspection.sessions[1].closes = 1

\* The part of C20 that the code keeps: the session is closed exactly once
\* on every return that follows a successful open.
C20_SessionClosedOnReturn ==
    /\ inspection.sessions[1].closes <= 1
    /\ (inspection.pc = "returned" /\ inspection.sessions[1].opened)
         => inspection.sessions[1].closes = 1

\* ------------------------------------------------ properties of V2VSession
\* C13: V2VSession.Close is idempotent.  Close never crashes, whatever
\* handle it is called on (nil, without a command, without a process,
\* without an auth file); over all the Close calls on a handle the process
\* is terminated at most once and the auth file is removed at most once;
\* and after every Close from the second on, the process and the auth file
\* are as the first Close left them.
C13_CloseIdempotent ==
    /\ session.pc # "panic"
    /\ session.kills <= 1
    /\ session.removes <= 1
    /\ (session.pc = "held" /\ session.closes >= 2)
         => /\ session.proc = session.afterFirst.proc
            /\ session.file = session.afterFirst.file
            /\ session.proc \in { "none", "reaped" }
            /\ ~session.file

\* Close was called twice on the handle OpenWithVirtV2V returned, and the
\* first call killed the process and removed the auth file.
C13_Witness ==
    /\ session.pc = "held"
    /\ session.closes = 2
    /\ session.handle = Handle("started", "path")
    /\ session.kills = 1
    /\ session.removes = 1
    /\ session.err = NoErr

\* ------------------------------------------- properties of the two variants
V2vPcs == { "v2v_lookup", "v2v_wait", "v2v_check2", "v2v_dbget", "v2v_dbhit",
            "v2v_inspect", "v2v_inspecting", "v2v_memset", "v2v_dbset",
            "v2v_fnret", "v2v_dereg" }
VirtPcs == { "lookup", "wait", "check2", "dbget", "dbhit", "inspect",
             "inspecting", "memset", "dbset", "fnret", "dereg" }

\* Call c is an invocation of InspectWithVirtV2v, of InspectWithVirt.
IsV2v(c) ==
    \/ call[c].pc \in V2vPcs
    \/ hist[c].role \in { "v2v-hit", "v2v-waiter", "v2v-executor" }
IsVirt(c) ==
    \/ call[c].pc \in VirtPcs
    \/ hist[c].role \in { "hit", "waiter", "executor" }

\* The values of each variant.
VirtValues == { InspectValue(c) : c \in Calls } \cup { StoredValue }
V2vValues == { V2vInspectValue(c) : c \in Calls } \cup { V2vStoredValue }

\* C14: the two variants share no cache and no inflight tracker.  As long
\* as only InspectWithVirt was called, the virt-v2v volatile cache and
\* inflight table are as NewInspector made them, and the other way round;
\* each volatile cache holds only values of its own variant and each
\* inflight table only records of its own variant; a call never waits on a
\* record of the other variant and never returns a value of the other
\* variant, so InspectWithVirtV2v(K) is not served from what
\* InspectWithVirt(K) cached.
C14_VariantsShareNothing ==
    /\ (\A c \in Calls : ~IsV2v(c))
         => /\ \A s \in KeyStrings : virtV2vMemoryCache[s] = Nil
            /\ \A s \in KeyStrings : virtV2vInflight[s] = NoRec
            /\ db.isNil => db.v2vStore = EmptyStore
    /\ (\A c \in Calls : ~IsVirt(c))
         => /\ \A s \in KeyStrings : virtMemoryCache[s] = Nil
            /\ \A s \in KeyStrings : virtInflight[s] = NoRec
    /\ \A s \in KeyStrings :
         /\ virtMemoryCache[s] \in VirtValues \cup { Nil }
         /\ virtV2vMemoryCache[s] \in V2vValues \cup { Nil }
         /\ virtInflight[s] # NoRec => IsVirt(virtInflight[s])
         /\ virtV2vInflight[s] # NoRec => IsV2v(virtV2vInflight[s])
    /\ \A c \in Calls :
         /\ call[c].pc = "wait" => IsVirt(call[c].rec)
         /\ call[c].pc = "v2v_wait" => IsV2v(call[c].rec)
         /\ IsVirt(c) => call[c].val \in VirtValues \cup { Nil }
         /\ IsV2v(c) => call[c].val \in V2vValues \cup { Nil }
         /\ ~(IsVirt(c) /\ IsV2v(c))

\* An InspectWithVirtV2v call for K that began after an InspectWithVirt
\* call for K had returned a value missed the virt-v2v cache, while the
\* volatile cache of InspectWithVirt holds that value.
C14_Witness ==
    \E c, d \in Calls :
        /\ call[c].pc = "v2v_lookup"
        /\ IsVirt(d)
        /\ call[d].pc = "done"
        /\ call[d].err = NoErr
        /\ call[d].key = call[c].key
        /\ ~run.overlapped
        /\ virtMemoryCache[String(call[c].key)] = call[d].val

\* --------------------------------- properties of ValidateMigrateableFstab
\* Mountpoint j of operating system i of the data has a Device that begins
\* with "/dev/disk/by-path/".
Offending(data, i, j) ==
    LET dev == data.Operatingsystems[i].Mountpoints.Mountpoint[j].Device IN
    /\ Len(dev) >= Len(ByPathPrefix)
    /\ \A n \in 1..Len(ByPathPrefix) : dev[n] = ByPathPrefix[n]

\* The positions of the mountpoints of the data.
Positions(data) ==
    UNION { { << i, j >> :
                j \in 1..Len(data.Operatingsystems[i].Mountpoints.Mountpoint) }
            : i \in 1..Len(data.Operatingsystems) }

\* C15: ValidateMigrateableFstab returns Valid = false exactly when the data
\* is not nil and some mountpoint of some operating system has a Device
\* that begins with "/dev/disk/by-path/"; for nil data it returns Valid =
\* true with the message "No inspection data provided".
C15_InvalidIffByPath ==
    fstab.pc = "returned" =>
        LET data == fstab.inspectionData IN
        /\ ~fstab.result.Valid
             <=> /\ ~data.isNil
                 /\ \E p \in Positions(data) : Offending(data, p[1], p[2])
        /\ data.isNil
             => fstab.result = CheckResult(TRUE, << "No inspection data provided" >>)

\* The function returned Valid = false for data whose first operating
\* system has no by-path device and whose second has one.
C15_Witness ==
    /\ fstab.pc = "returned"
    /\ ~fstab.result.Valid
    /\ Len(fstab.inspectionData.Operatingsystems) = 2
    /\ \A p \in Positions(fstab.inspectionData) :
         p[1] = 1 => ~Offending(fstab.inspectionData, p[1], p[2])

\* Position p comes before position q in scan order.
Before(p, q) == p[1] < q[1] \/ (p[1] = q[1] /\ p[2] < q[2])

\* C16: when ValidateMigrateableFstab returns Valid = false, its message
\* names the device and the mount point of the first by-path mountpoint in
\* scan order (operating systems in list order, mountpoints in list order
\* within each).
C16_FirstOffendingReported ==
    (fstab.pc = "returned" /\ ~fstab.result.Valid) =>
        LET data == fstab.inspectionData IN
        \E p \in Positions(data) :
            /\ Offending(data, p[1], p[2])
            /\ \A q \in Positions(data) :
                 Before(q, p) => ~Offending(data, q[1], q[2])
            /\ LET m == data.Operatingsystems[p[1]].Mountpoints.Mountpoint[p[2]]
               IN fstab.result.Message =
                    << "Fstab contains /dev/disk/by-path/ entries which are not migrateable. ",
                       "Found device: " >> \o m.Device
                    \o << " mounted at: " >> \o m.MountPoint

\* The data has two different by-path mountpoints in one operating system,
\* and the function returned.
C16_Witness ==
    /\ fstab.pc = "returned"
    /\ ~fstab.result.Valid
    /\ \E p, q \in Positions(fstab.inspectionData) :
         /\ p[1] = q[1] /\ p[2] < q[2]
         /\ Offending(fstab.inspectionData, p[1], p[2])
         /\ Offending(fstab.inspectionData, q[1], q[2])
         /\ fstab.inspectionData.Operatingsystems[p[1]].Mountpoints.Mountpoint[p[2]]
              # fstab.inspectionData.Operatingsystems[q[1]].Mountpoints.Mountpoint[q[2]]

\* ------------------------------------------------- properties of CacheKey
\* C17: two CacheKeys address the same volatile-cache entry and the same
\* inflight record exactly when they have the same VMName and the same
\* SnapshotName: equal keys have the same String() and the same Hash(), and
\* keys that differ in a field never have the same String(), whatever
\* characters the names contain.
C17_SameEntryIffEqualKeys ==
    keyPair.pc = "addressed"
        => /\ keyPair.sameEntry <=> (keyPair.k1 = keyPair.k2)
           /\ keyPair.sameRecord <=> (keyPair.k1 = keyPair.k2)
           /\ (String(keyPair.k1) = String(keyPair.k2))
                <=> (keyPair.k1 = keyPair.k2)
           /\ keyPair.k1 = keyPair.k2 => Hash(keyPair.k1) = Hash(keyPair.k2)

\* The part of C17 that the code keeps: equal keys have the same String()
\* and Hash() and address the same entry and record.
C17_EqualKeysSameEntry ==
    keyPair.k1 = keyPair.k2
        => /\ String(keyPair.k1) = String(keyPair.k2)
           /\ Hash(keyPair.k1) = Hash(keyPair.k2)
           /\ keyPair.pc = "addressed"
                => keyPair.sameEntry /\ keyPair.sameRecord

\* ------------------------------------------- properties of a volatile hit
\* A step in which call c enters InspectWithVirt for a key whose value is
\* in the volatile cache.
C18_HitStep(c) ==
    /\ call[c].pc = "idle"
    /\ call'[c].pc # "idle"
    /\ virtMemoryCache[String(call'[c].key)] # Nil

\* C18: a volatile hit returns at once and has no side effects.  When the
\* first lookup of a call finds a value, the call returns that value with a
\* nil error in the same step, without registering or waiting on an
\* inflight record, without reading or writing the durable tier, without
\* running an inspection and without writing the volatile tier.
C18_HitHasNoSideEffects ==
    [][ \A c \in Calls :
          C18_HitStep(c) =>
            /\ call'[c].pc = "done"
            /\ call'[c].val = virtMemoryCache[String(call'[c].key)]
            /\ call'[c].err = NoErr
            /\ call'[c].rec = NoRec
            /\ ~call'[c].isWaiter
            /\ hist'[c] = [ hist[c] EXCEPT !.role = "hit" ]
            /\ UNCHANGED << virtMemoryCache, virtInflight, inflightCalls, db >>
      ]_vars

\* A call returned on a hit of its first lookup while another call, for
\* another key string, is in the middle of its work function.
C18_Witness ==
    \E c, d \in Calls :
        /\ call[c].pc = "done"
        /\ hist[c].role = "hit"
        /\ call[c].val # Nil
        /\ InFn(d)

\* ------------------------------------------- properties of the full-miss path

\* A value that parseInspectionXML produced.
IsParsed(v) == v[1] = "xml"

\* Every session the inspection opened has been closed, once.
AllReleased ==
    \A j \in Disks : inspection.sessions[j].opened
                        => inspection.sessions[j].closes = 1

\* C21, as stated: on the full-miss path both cache tiers are populated
\* before the sessions opened for the inspection are closed, that is,
\* whenever a session of a successful inspection has been closed the
\* volatile tier already holds the inspection's value.
C21_PopulatedBeforeRelease ==
    \A c \in MissCallers :
        ( /\ inspection.pc # "unused"
          /\ inspection.err = NoErr
          /\ \E j \in Disks : inspection.sessions[j].closes > 0 )
        => virtMemoryCache[String(call[c].key)] = inspection.val

\* C21, amended: the order on the full-miss path is orchestrate sessions,
\* invoke the tool, parse, release the sessions, and only then populate the
\* volatile tier, then the durable tier, then return: the tool runs only
\* with a ready session for every disk, a value is parsed only from an
\* output of the tool, and a parsed value is in a tier or returned only
\* when Inspect has returned and every session it opened is closed; the
\* durable tier holds the value only if the volatile tier does.
C21_ReleasedBeforePopulate ==
    \A c \in MissCallers :
        inspection.pc # "unused" =>
          LET s == String(call[c].key)
              n == Len(inspection.diskInfo.BaseDiskPaths) IN
          /\ inspection.toolRuns > 0
               => \A j \in 1..n : /\ inspection.sessions[j].opened
                                  /\ inspection.sessions[j].ready
                                  /\ inspection.sessions[j].closes = 0
                                       \/ inspection.pc = "returned"
          /\ IsParsed(inspection.val)
               => inspection.toolRuns = 1 /\ inspection.pc = "returned"
          /\ IsParsed(virtMemoryCache[s])
               => /\ inspection.pc = "returned"
                  /\ AllReleased
                  /\ virtMemoryCache[s] = inspection.val
          /\ IsParsed(db.store[call[c].key])
               => db.store[call[c].key] = virtMemoryCache[s]
          /\ (call[c].pc = "done" /\ IsParsed(call[c].val))
               => /\ call[c].val = virtMemoryCache[s]
                  /\ hist[c].dbSet # "none" \/ db.isNil

\* A full miss that went through every stage with two disks: both sessions
\* closed, both tiers populated, the call returned.
C21_Witness ==
    \E c \in MissCallers :
        /\ call[c].pc = "done"
        /\ call[c].err = NoErr
        /\ hist[c].insp = "ok"
        /\ hist[c].dbSet = "ok"
        /\ db.store[call[c].key] = call[c].val
        /\ Len(inspection.diskInfo.BaseDiskPaths) = 2
        /\ \A j \in 1..2 : inspection.sessions[j].closes = 1

\* ------------------------------------------------ properties of the locks

\* The next step of call c inside inflightTracker.do.
DoStep(c) ==
    \/ DoLookup(c)
    \/ DoWait(c)
    \/ FnMemCheck2(c)
    \/ FnDbGet(c)
    \/ FnMemSetFromDb(c)
    \/ InspectBegin(c)
    \/ InspectEnd(c)
    \/ FnMemSet(c)
    \/ FnDbSet(c)
    \/ DoDone(c)
    \/ DoDelete(c)

\* Call c is inside do and cannot take a step.
Blocked(c) == call[c].pc \notin { "idle", "done" } /\ ~ENABLED DoStep(c)

\* C22: no lock is held across the work function, so a caller is never
\* blocked by an inspection in progress for another key: a call that cannot
\* take a step is waiting on the record of an executor for its own key.
C22_BlockedOnlyByOwnKey ==
    \A c \in Calls :
        Blocked(c) => /\ call[c].pc = "wait"
                      /\ call[call[c].rec].pc = "inspecting"
                           => call[call[c].rec].key = call[c].key

\* What holds in place of it: a blocked call waits on the record of an
\* executor whose key has the same key string.
C22_BlockedOnlyByOwnKeyString ==
    \A c \in Calls :
        Blocked(c) => /\ call[c].pc = "wait"
                      /\ String(call[call[c].rec].key) = String(call[c].key)

\* ------------------------------------------- properties of the inflight table

\* Call c is inside the work function or between its return and the end of
\* do: it is an executor whose do is in progress.
Executing(c) == InFn(c) \/ call[c].pc \in { "fnret", "dereg" }

\* The table holds a record only while the do call that registered it, for
\* a key with that key string, is in progress.
C23_Table ==
    \A s \in KeyStrings :
        virtInflight[s] # NoRec
          => /\ Executing(virtInflight[s])
             /\ String(call[virtInflight[s]].key) = s

\* A record leaves the table only in the last step of the do call that
\* registered it, and a lookup that finds no executor in progress for its
\* key string makes the caller the executor of its own work function.
C23_Steps ==
    /\ \A s \in KeyStrings :
         (virtInflight[s] # NoRec /\ virtInflight'[s] # virtInflight[s])
           => /\ virtInflight'[s] = NoRec
              /\ call[virtInflight[s]].pc = "dereg"
              /\ call'[virtInflight[s]].pc = "done"
    /\ \A c \in Calls :
         ( /\ call[c].pc = "lookup"
           /\ call'[c].pc # "lookup"
           /\ \A d \in Calls \ {c} :
                Executing(d) => String(call[d].key) # String(call[c].key) )
         => /\ call'[c].pc = "check2"
            /\ hist'[c].role = "executor"
            /\ virtInflight'[String(call[c].key)] = c

\* C23: inflight records are not retained: a record is removed only by the
\* executor that registered it and before that executor's do returns, the
\* table has no record for a key when no do call for it is in progress, and
\* a do call that starts after the previous executor returned runs its own
\* work function, also after an error.
C23_RecordsNotRetained == []C23_Table /\ [][C23_Steps]_vars

\* An executor returned an error and a call for the same key that entered
\* after that return ran the inspection itself.
C23_Witness ==
    \E c, d \in Calls :
        /\ c # d
        /\ call[c].pc = "done"
        /\ hist[c].role = "executor"
        /\ call[c].err # NoErr
        /\ ~run.overlapped
        /\ call[d].key = call[c].key
        /\ hist[d].role = "executor"
        /\ hist[d].insp \notin { "none", "running" }
        /\ virtInflight[String(call[d].key)] = NoRec

\* ------------------------------------- properties of the per-disk success path

\* C24: on full success in per-disk mode the tool was given exactly one
\* endpoint per disk, in disk order, endpoint j being the URL of the session
\* opened for BaseDiskPaths[j], and the cleanup function is the list of
\* exactly these sessions and has closed each of them once.
C24_OneEndpointPerDiskInOrder ==
    LET n == Len(inspection.diskInfo.BaseDiskPaths) IN
    (inspection.pc = "returned" /\ inspection.err = NoErr)
      => /\ inspection.toolRuns = 1
         /\ inspection.toolArgs = [ j \in 1..n |-> NBDURL(j) ]
         /\ inspection.sessionCloser = [ j \in 1..n |-> j ]
         /\ \A j \in Disks :
              /\ inspection.sessions[j].opened <=> j <= n
              /\ inspection.sessions[j].closes = IF j <= n THEN 1 ELSE 0

\* An inspection of a snapshot with two disks succeeded.
C24_Witness ==
    /\ inspection.pc = "returned"
    /\ inspection.err = NoErr
    /\ inspection.val # Nil
    /\ Len(inspection.diskInfo.BaseDiskPaths) = 2
    /\ Len(inspection.toolArgs) = 2

\* ------------------------------------------- properties of OpenWithVirtV2V

\* Nothing of the call exists yet before createLibvirtAuthFile, no process
\* before cmd.Start(), and after an error return there is no auth file, no
\* process and no session.
C25_NothingHeld ==
    /\ session.pc \in { "open", "authfile" }
         => ~session.file /\ session.proc = "none"
    /\ session.pc = "start" => session.proc = "none"
    /\ session.err # NoErr
         => /\ session.handle = NilHandle
            /\ ~session.file
            /\ session.proc = "none"

\* A malformed URL and an empty datacenter fail in the first step of the
\* call; a failed start takes the auth file away in the step that returns
\* the error.
C25_Steps ==
    (session.err = NoErr /\ session'.err # NoErr)
      => /\ session'.pc = "held"
         /\ session'.err[1] \in { "url", "datacenter" }
              => session.pc = "open"
         /\ session'.err[1] = "start"
              => session.pc = "start" /\ session.file /\ ~session'.file

\* C25: OpenWithVirtV2V acquires nothing it does not release on failure: a
\* malformed vCenter URL or an empty datacenter fails before an auth file
\* is created or a process started, a failed start removes the auth file
\* before the error is returned, and after an error return no auth file
\* and no process remain and the returned session is nil.
C25_ReleasedOnFailure == []C25_NothingHeld /\ [][C25_Steps]_vars

\* cmd.Start() failed after the auth file had been created.
C25_Witness ==
    /\ session.pc = "held"
    /\ session.err = << "start", 0 >>
    /\ session.handle = NilHandle
    /\ ~session.file

\* ------------------------------------------------ properties of FstabCheck.Run

\* C26: when InspectWithVirt returned an error, Run returns Valid = false
\* with a message that begins with "Failed to run inspection: " followed by
\* the error's text, and the fstab validation is not applied; when it
\* returned data, Run returns what ValidateMigrateableFstab returns for it.
C26_RunResult ==
    fstab.pc = "returned" =>
        IF fstab.err # NoErr
        THEN /\ ~fstab.result.Valid
             /\ Head(fstab.result.Message) = "Failed to run inspection: "
             /\ Tail(fstab.result.Message) = Error(fstab.err)
             /\ fstab.result # ValidateMigrateableFstab(fstab.inspectionData)
        ELSE fstab.result = ValidateMigrateableFstab(fstab.inspectionData)

\* Run returned after an inspection that failed in the external tool.
C26_Witness ==
    /\ fstab.pc = "returned"
    /\ fstab.err # NoErr
    /\ fstab.err[1] = "tool"
    /\ ~fstab.result.Valid

\* ------------------------------------------- properties of the parsed value

\* The number of operating systems of a parsed value.
NumOS(v) == v[2]

\* C27: every value Inspect returns with a nil error has at least one
\* operating system; an output that parses to none is a parse failure, and
\* no tier and no caller gets a value of the full-compute path without an
\* operating system.
C27_AtLeastOneOS ==
    /\ (inspection.pc = "returned" /\ inspection.err = NoErr)
         => /\ IsParsed(inspection.val)
            /\ NumOS(inspection.val) >= 1
            /\ NumOS(inspection.val) = inspection.output.nOS
    /\ ( /\ inspection.pc = "returned"
         /\ inspection.toolRuns > 0
         /\ inspection.output.valid
         /\ inspection.output.nOS = 0 )
         => inspection.val = Nil /\ inspection.err = << "parse", 0 >>
    /\ \A s \in KeyStrings :
         IsParsed(virtMemoryCache[s]) => NumOS(virtMemoryCache[s]) >= 1
    /\ \A k \in Keys : IsParsed(db.store[k]) => NumOS(db.store[k]) >= 1
    /\ \A c \in Calls : IsParsed(call[c].val) => NumOS(call[c].val) >= 1

\* The tool printed well-formed XML without an operating system: the call
\* failed and the tiers were left as they were.
C27_Witness ==
    \E c \in MissCallers :
        /\ call[c].pc = "done"
        /\ hist[c].insp = "parse"
        /\ call[c].err # NoErr
        /\ inspection.output.valid
        /\ inspection.output.nOS = 0
        /\ virtMemoryCache[String(call[c].key)] = Nil

\* ------------------------------------------- properties of the volatile tier

\* In a step an entry that is present is left as it is, and an entry is
\* written only by the registered executor of its key string, inside its
\* work function.
C28_Steps ==
    \A s \in KeyStrings :
        /\ virtMemoryCache[s] # Nil => virtMemoryCache'[s] = virtMemoryCache[s]
        /\ virtMemoryCache'[s] # virtMemoryCache[s]
             => \E c \in Calls : /\ InFn(c)
                                 /\ String(call[c].key) = s
                                 /\ virtInflight[s] = c
                                 /\ virtMemoryCache'[s] = call[c].val

\* C28: the volatile tier is write-once per key: an entry, once present, is
\* never removed and never overwritten with a different value, every set
\* happening inside the one executor of the key after a volatile miss.
C28_VolatileWriteOnce == [][C28_Steps]_vars

\* An executor wrote the entry of a key and a later executor for the same
\* key found it in its double-check and returned it without a set.
C28_Witness ==
    \E c, d \in Calls :
        /\ c # d
        /\ call[c].pc = "done" /\ call[d].pc = "done"
        /\ call[c].key = call[d].key
        /\ hist[c].role = "executor" /\ hist[c].wrote
        /\ hist[d].role = "executor" /\ ~hist[d].wrote
        /\ hist[d].insp = "none" /\ hist[d].dbGet = "none"
        /\ call[d].val = virtMemoryCache[String(call[d].key)]
        /\ call[d].val = call[c].val

\* ------------------------------------------- properties of the returned value

\* C29: all calls for a key that returned with a nil error returned the
\* same value, and a value it is, whatever the interleaving, the failures
\* of other calls and the read and write errors of the durable tier.
C29_OneValuePerKey ==
    \A c \in Calls :
        (Returned(c) /\ call[c].err = NoErr)
          => /\ call[c].val # Nil
             /\ \A d \in Calls \ {c} :
                  ( /\ Returned(d)
                    /\ call[d].err = NoErr
                    /\ call[d].key = call[c].key )
                  => call[d].val = call[c].val

\* An executor whose durable read and write both failed returned its
\* inspection's value, and a later call for the key returned the same value.
C29_Witness ==
    \E c, d \in Calls :
        /\ c # d
        /\ Returned(c) /\ Returned(d)
        /\ call[c].err = NoErr /\ call[d].err = NoErr
        /\ call[c].key = call[d].key
        /\ hist[c].dbGet = "err"
        /\ hist[c].dbSet = "err"
        /\ hist[c].insp = "ok"
        /\ ~run.overlapped
        /\ call[d].val = InspectValue(c)

\* ------------------------------------------------ properties of termination

\* C30: under fair scheduling every call of inflightTracker.do returns in
\* the end, work functions returning: the executor returns, and a waiter is
\* released once the work function of its record's executor has returned,
\* none staying blocked on a record whose executor has finished.
C30_DoReturns ==
    \A c \in Calls :
        /\ (call[c].pc \notin { "idle", "done" }) ~> Returned(c)
        /\ (call[c].pc = "wait" /\ inflightCalls[call[c].rec].wg = 0)
             ~> (Returned(c) /\ call[c].isWaiter)

\* A waiter was released with the error of its executor's failed
\* inspection.
C30_Witness ==
    \E c \in Calls :
        /\ Returned(c)
        /\ call[c].isWaiter
        /\ hist[c].role = "waiter"
        /\ hist[call[c].rec].insp \in ErrKinds
        /\ Returned(call[c].rec)

\* ------------------------------------------- properties of the callers' contexts

\* A waiter leaves its wait only when the record is complete and then with
\* the record's result, its own ctx cancelled or not; the cancellation of
\* the ctx of a call that is not inside Inspect leaves the inspection as it
\* is.
C31_Steps ==
    \A c \in Calls :
        /\ (call[c].pc = "wait" /\ call'[c].pc # "wait")
             => /\ inflightCalls[call[c].rec].wg = 0
                /\ call'[c].val = inflightCalls[call[c].rec].val
                /\ call'[c].err = inflightCalls[call[c].rec].err
        /\ (call[c].pc # "inspecting" /\ call'[c].ctxDone # call[c].ctxDone)
             => inspection' = inspection

\* A waiter that returned has the result of the executor it waited on,
\* which is that executor's error when the executor's inspection failed.
C31_Results ==
    \A c \in Calls :
        (Returned(c) /\ call[c].isWaiter)
          => /\ call[c].val = inflightCalls[call[c].rec].val
             /\ call[c].err = inflightCalls[call[c].rec].err
             /\ hist[call[c].rec].insp \in ErrKinds
                  => call[c].err = InspectError(hist[call[c].rec].insp,
                                                call[c].rec)

\* C31: the shared computation runs under the executor's context only: a
\* waiter stays blocked until the executor finishes whatever its own
\* cancellation signal, and when the executor's context is cancelled the
\* waiters get the executor's cancellation error though their own
\* contexts are not cancelled.
C31_ExecutorContextOnly == []C31_Results /\ [][C31_Steps]_vars

\* The executor's ctx was cancelled while the tool was to run, and a waiter
\* whose ctx is not cancelled returned the executor's error.
C31_Witness ==
    \E c \in Calls :
        LET e == call[c].rec IN
        /\ Returned(c)
        /\ call[c].isWaiter
        /\ ~call[c].ctxDone
        /\ e # NoRec
        /\ call[e].ctxDone
        /\ hist[e].insp = "tool"
        /\ inspection.ctxDone
        /\ inspection.err = << "tool", 0 >>
        /\ call[c].err = InspectError("tool", e)

\* ------------------------------------------- properties of the durable tier

\* Who has read and written the durable tier, and what is in it.
C32_Durable ==
    /\ \A c \in Calls :
         /\ hist[c].dbGet # "none"
              => hist[c].role = "executor" /\ ~db.isNil
         /\ hist[c].dbSet # "none"
              => /\ hist[c].role = "executor"
                 /\ ~db.isNil
                 /\ hist[c].insp = "ok"
                 /\ hist[c].dbGet \in { "miss", "err" }
                 /\ call[c].val = InspectValue(c)
         /\ hist[c].role \in { "hit", "waiter" }
              => hist[c].dbGet = "none" /\ hist[c].dbSet = "none"
    /\ db.isNil => db.store = EmptyStore
    /\ \A k \in Keys :
         db.store[k] \notin { Nil, StoredValue }
           => \E c \in Calls : /\ hist[c].dbSet = "ok"
                               /\ call[c].key = k
                               /\ db.store[k] = InspectValue(c)

\* A step writes the durable tier only as the write of an executor that has
\* just stored its inspection's value in the volatile tier, and no call
\* writes twice.
C32_Steps ==
    /\ \A c \in Calls :
         hist'[c].dbSet # hist[c].dbSet
           => /\ hist[c].dbSet = "none"
              /\ call[c].pc = "dbset"
              /\ call'[c].pc = "fnret"
              /\ hist[c].insp = "ok"
              /\ virtMemoryCache[String(call[c].key)] = call[c].val
    /\ db' # db
         => \E c \in Calls :
               /\ hist[c].dbSet = "none"
               /\ hist'[c].dbSet = "ok"
               /\ db' = [ db EXCEPT !.store[call[c].key] = call[c].val ]

\* C32: the durable tier is written only by an executor, directly after a
\* successful inspection and at most once per executor run; volatile hits,
\* waiters, durable hits and failures write nothing, waiters and volatile
\* hits read nothing, and with a nil DB there is no durable operation.
C32_DurableWrittenByExecutorOnly == []C32_Durable /\ [][C32_Steps]_vars

\* An executor missed in the durable tier, inspected and wrote the value;
\* the other call waited on it and touched the durable tier not at all.
C32_Witness ==
    \E c, d \in Calls :
        /\ Returned(c) /\ Returned(d)
        /\ hist[c].role = "executor"
        /\ hist[c].dbGet = "miss"
        /\ hist[c].dbSet = "ok"
        /\ db.store[call[c].key] = InspectValue(c)
        /\ hist[d].role = "waiter"
        /\ call[d].rec = c
        /\ call[d].val = InspectValue(c)

\* ------------------------------------------- properties of the Runs' Inspectors

\* The Runs that have their Inspector.
WithInspector == { r \in Runs : fstab.runs[r].pc # "new" }

\* C33: each Run has an Inspector of its own, with an empty memory cache
\* and an empty inflight table when the Run begins to use it and shared
\* with no other Run; no Run is served from memory or waits on another
\* Run's inspection, and with a nil DB every Run that has come back from
\* InspectWithVirt has run the inspection itself.
C33_OwnInspectorPerRun ==
    /\ \A r, q \in WithInspector :
         r # q => fstab.runs[r].inspector # fstab.runs[q].inspector
    /\ \A r \in WithInspector :
         /\ InspectorOf(r).allocated
         /\ fstab.runs[r].pc \in { "first", "lookup" }
              => /\ InspectorOf(r).virtMemoryCache = EmptyInspector.virtMemoryCache
                 /\ InspectorOf(r).virtInflight = EmptyInspector.virtInflight
         /\ fstab.runs[r].role \notin { "hit", "waiter" }
         /\ fstab.runs[r].source # "memory"
         /\ \A s \in KeyStrings :
              InspectorOf(r).virtInflight[s] \in { NoRec, r }
         /\ (db.isNil /\ fstab.runs[r].pc \in { "validate", "returned" })
              => fstab.runs[r].inspected

\* With a nil DB a Run returned and a Run that began after that return ran
\* the inspection again and returned the same result.
C33_Witness ==
    \E r, q \in Runs :
        /\ r # q
        /\ db.isNil
        /\ fstab.runs[r].pc = "returned"
        /\ fstab.runs[q].pc = "returned"
        /\ fstab.runs[q].startedAfter
        /\ fstab.runs[r].source = "inspect"
        /\ fstab.runs[q].source = "inspect"
        /\ fstab.runs[q].result = fstab.runs[r].result
        /\ ~fstab.runs[q].result.Valid

====
